---- MODULE Spec2Model ----
(***************************************************************************)
(* Batch text-to-speech pipeline of edge-tts-generate:                     *)
(*   GenerateAudioBatch (edge_tts_gen.py)                                  *)
(*     -> synthesize_batch / _synthesize_batch_async (bundled_tts.py)      *)
(*       -> synthesize_with_limit, one unit per item, behind a semaphore   *)
(*         -> _synthesize_text: wait_for(_collect_audio) in a retry loop.  *)
(*                                                                         *)
(* Python values are modelled as follows.                                  *)
(*   str        a sequence of pieces; "" is << >>; + is \o                 *)
(*   bytes      a sequence of chunk payloads; b"" is << >>                 *)
(*   x | None   << >> for None, << x >> for a value                        *)
(*   dict       a function whose DOMAIN is the key set                     *)
(* The payload of an audio chunk is the number of the attempt that         *)
(* received it, so that the origin of every byte of a result is visible.   *)
(* The speech service is the environment: per attempt it delivers chunks,  *)
(* ends the stream, raises, or stays silent until the deadline expires.    *)
(* It delivers at most as many chunks as the item's text has words.        *)
(***************************************************************************)
EXTENDS Integers, Sequences, FiniteSets, TLC

\* ---------------------------------------------------------------- bounds
MaxItems == 3
MaxRetries == 1
MaxTextLen == 1
MaxGateItems == 6
MaxTasks == 2
MaxNotes == 11
MaxNewFields == 1
MaxPromptLen == 1
MaxRuns == 2

\* ------------------------------------------------------ program constants
BATCH_CONCURRENCY_LIMIT == 5
STREAM_TIMEOUT_RETRIES_DEFAULT == 1

STREAM_TIMEOUT_SECONDS_DEFAULT == "30.0"

\* ------------------------------------------------------------ input sets
Ids == {1, 2, 9, 10}
Timeouts == {STREAM_TIMEOUT_SECONDS_DEFAULT, "5.0"}
Voices == {"en-US-JennyNeural"}
OtherVoices == {"ja-JP-NanamiNeural"}
\* add-on configurations: the defaults, and every setting changed
Configs ==
    { [stream_timeout_retries |-> 0],
      [pitch_slider_value |-> -5, speed_slider_value |-> 10, volume_slider_value |-> 0,
       stream_timeout_seconds |-> "5.0", stream_timeout_retries |-> 0] }

\* Exceptions the stream of the speech service can raise inside an attempt.
\* asyncio.TimeoutError is the class wait_for raises too; the transport
\* raises it (or a subclass) on its own socket timeouts.
StreamExceptions ==
    { [cls |-> "ConnectionError", msg |-> << "Service unavailable" >>],
      [cls |-> "TimeoutError",    msg |-> << >>] }

\* Exceptions asyncio.new_event_loop() can raise in synthesize_batch.
LoopExceptions == { [cls |-> "OSError", msg |-> << "Too many open files" >>] }

ChunkTypes == {"audio", "WordBoundary"}

\* ------------------------------------------------------- Python helpers
None == << >>
Some(x) == << x >>
\* truth value of an optional str / bytes: None and the empty value are falsy
Truthy(o) == o # << >> /\ o[1] # << >>

RECURSIVE Digits(_)
\* str(n) of a non-negative int: its decimal digits
Digits(n) == IF n < 10 THEN << n >> ELSE Digits(n \div 10) \o << n % 10 >>

Str(n) == Digits(n)

Range(s) == { s[i] : i \in DOMAIN s }

Last(h) == h[Len(h)]

RECURSIVE DistinctSeqs(_, _)
\* the sequences of at most n pairwise distinct elements of S
DistinctSeqs(S, n) ==
    IF n = 0 THEN { << >> }
    ELSE LET shorter == DistinctSeqs(S, n - 1)
         IN shorter \cup { t \in { Append(s, x) : s \in shorter, x \in S } :
                               Len(t) = n /\ Cardinality(Range(t)) = n }

VARIABLES
    text_speaker_items, \* argument of GenerateAudioBatch: (identifier, text, voice)
    config,             \* argument of GenerateAudioBatch: the add-on config
    pc,                 \* position of the call: idle / running / returned / raised
    items,              \* argument of synthesize_batch: the TTSItem list
    tts_config,         \* argument of synthesize_batch: the TTSConfig, or None
    loop,               \* event loop of synthesize_batch: none / open / closed
    semaphore,          \* value of the asyncio.Semaphore of the batch
    unit,               \* per item: the synthesize_with_limit coroutine
    out_of_order,       \* some unit finished before a unit of lower index
    entry,              \* the function the caller entered the pipeline through
    results,            \* return value of synthesize_batch, or None
    ret,                \* BatchAudioResult returned by GenerateAudioBatch, or None
    sched_exc,          \* exception raised by synthesize_batch, or None
    exc,                \* exception raised by GenerateAudioBatch / GenerateAudioQuery, or None
    teardown,           \* the steps _shutdown_loop has performed, in order
    loop_tasks,         \* tasks on a loop handed to _shutdown_loop directly
    query_ret,          \* bytes returned by GenerateAudioQuery or synthesize_single, or None
    driver,             \* the note-update driver (GenerateAudio), see below
    dialog,             \* the settings dialog (MyDialog), see below
    runtime             \* the bootstrap of the external runtime, see below

\* the variables no step of the synthesis units touches
other_vars == << loop_tasks, query_ret, driver, dialog, runtime >>

vars == << text_speaker_items, config, pc, items, tts_config, loop, semaphore, unit,
           out_of_order, entry, results, ret, sched_exc, exc, teardown, other_vars >>

\* ---------------------------------------------------------- data classes
TTSItem(identifier, text, voice) ==
    [identifier |-> identifier, text |-> text, voice |-> voice]

TTSConfig(voice, pitch, rate, volume, stream_timeout, stream_timeout_retries) ==
    [voice |-> voice, pitch |-> pitch, rate |-> rate, volume |-> volume,
     stream_timeout |-> stream_timeout,
     stream_timeout_retries |-> stream_timeout_retries]

TTSResult(identifier, audio, error) ==
    [identifier |-> identifier, audio |-> audio, error |-> error]

ItemError(identifier, reason) == [identifier |-> identifier, reason |-> reason]

BatchAudioResult(audio_map, item_errors) ==
    [audio_map |-> audio_map, item_errors |-> item_errors]

EmptyDict == << >>

\* dict.get(key, default)
Get(d, k, default) == IF k \in DOMAIN d THEN d[k] ELSE default

DictSet(d, k, v) == [x \in (DOMAIN d) \cup {k} |-> IF x = k THEN v ELSE d[x]]

\* ------------------------------------------------------ _synthesize_text
TimedOutMessage(stream_timeout) ==
    << "Timed out after ", stream_timeout, " seconds while streaming audio" >>

UnexpectedMessage == << "Unexpected error in synthesis retry loop" >>

\* range(config.stream_timeout_retries + 1)
RetryRange(cfg) == 0 .. cfg.stream_timeout_retries

\* variant: the exhaustion test fires one attempt early
IsLastAttemptEarly(attempt, cfg) == attempt = cfg.stream_timeout_retries - 1

\* if attempt == config.stream_timeout_retries
IsLastAttempt(attempt, cfg) == attempt = cfg.stream_timeout_retries

\* except asyncio.TimeoutError
IsTimeoutError(e) == e.cls = "TimeoutError"

\* audio += chunk["data"] only for chunk["type"] == "audio"
CollectChunk(audio, chunk) ==
    IF chunk.type = "audio" THEN audio \o << chunk.data >> ELSE audio

\* variant: one buffer shared by all attempts of a call
KeptAudio(previous) == previous

\* audio = b"" at the start of every _collect_audio() call
FreshAudio(previous) == << >>

\* --------------------------------------------------- synthesize_with_limit
\* variant: every item synthesized with config.voice
ItemConfigSharedVoice(item, cfg) ==
    TTSConfig(cfg.voice, cfg.pitch, cfg.rate, cfg.volume,
              cfg.stream_timeout, cfg.stream_timeout_retries)

\* item.voice or config.voice; every other field copied from config
ItemConfig(item, cfg) ==
    TTSConfig(IF item.voice # "" THEN item.voice ELSE cfg.voice,
              cfg.pitch, cfg.rate, cfg.volume,
              cfg.stream_timeout, cfg.stream_timeout_retries)

ResultOnSuccess(item, audio) == TTSResult(item.identifier, Some(audio), None)

\* except Exception as exc: TTSResult(identifier, error=str(exc))
ResultOnException(item, msg) == TTSResult(item.identifier, None, Some(msg))

PendingUnit ==
    [st |-> "pending", attempt |-> 0, seen |-> 0, audio |-> << >>,
     history |-> << >>, cfg |-> None, result |-> None]

\* ghost: how an attempt ended, and the message of the exception that ended it
Ended(kind, msg) == [kind |-> kind, msg |-> msg]

N == Len(items)
Units == 1 .. N

Done(i) == unit[i].st = "done"
InFlight(i) == unit[i].st = "inflight"
\* number of _collect_audio() calls unit i has issued
Attempts(u) == Len(u.history) + (IF u.st = "inflight" THEN 1 ELSE 0)

\* ghost: a unit finishing while a unit of lower index is unfinished
Overtakes(i) == \E j \in 1 .. (i - 1) : unit[j].st # "done"

\* variant: the gate admits one unit more than it has permits
LockedOffByOne(value) == value < 0

\* asyncio.Semaphore.locked()
Locked(value) == value <= 0

\* variant: the unit returns without giving its permit back
FinishKeepsPermit(i, res, hist, audio) ==
    /\ unit' = [unit EXCEPT ![i] = [st |-> "done", attempt |-> @.attempt, seen |-> 0,
                                    audio |-> audio, history |-> hist,
                                    cfg |-> @.cfg, result |-> Some(res)]]
    /\ semaphore' = semaphore
    /\ out_of_order' = (out_of_order \/ Overtakes(i))
    /\ UNCHANGED << text_speaker_items, config, pc, items, tts_config, loop, entry, results, ret, sched_exc, exc, teardown, other_vars >>

\* The unit leaves "async with semaphore" with a result: the permit is released.
Finish(i, res, hist, audio) ==
    /\ unit' = [unit EXCEPT ![i] = [st |-> "done", attempt |-> @.attempt, seen |-> 0,
                                    audio |-> audio, history |-> hist,
                                    cfg |-> @.cfg, result |-> Some(res)]]
    /\ semaphore' = semaphore + 1
    /\ out_of_order' = (out_of_order \/ Overtakes(i))
    /\ UNCHANGED << text_speaker_items, config, pc, items, tts_config, loop, entry, results, ret, sched_exc, exc, teardown, other_vars >>

\* variant: synthesize_with_limit has no except clause; the exception leaves
\* gather, run_until_complete and synthesize_batch
UnitRaisesUncaught(i, msg, hist) ==
    /\ sched_exc' = Some([cls |-> "Exception", msg |-> msg])
    /\ exc' = IF entry = "GenerateAudioBatch"
              THEN Some([cls |-> "RuntimeError",
                         msg |-> << "Failed to synthesize text in batch: " >> \o msg,
                         cause |-> Some([cls |-> "Exception", msg |-> msg])])
              ELSE exc
    /\ loop' = "closed"
    /\ pc' = "raised"
    /\ UNCHANGED << text_speaker_items, config, items, tts_config, semaphore, unit,
                    out_of_order, entry, results, ret, teardown, other_vars >>

\* An exception leaves _synthesize_text inside unit i: synthesize_with_limit
\* catches it and returns an error result.
UnitRaises(i, msg, hist) == Finish(i, ResultOnException(items[i], msg), hist, << >>)

\* The next iteration of the retry loop: a new _collect_audio() call.
NextAttempt(i, hist) ==
    /\ unit' = [unit EXCEPT ![i].attempt = @ + 1, ![i].seen = 0,
                            ![i].audio = FreshAudio(@), ![i].history = hist]
    /\ UNCHANGED << text_speaker_items, config, pc, items, tts_config, loop, semaphore,
                    out_of_order, entry, results, ret, sched_exc, exc, teardown, other_vars >>

\* asyncio.TimeoutError reaches the except clause of the retry loop.
OnTimeoutError(i, hist) ==
    IF IsLastAttempt(unit[i].attempt, unit[i].cfg[1])
    THEN UnitRaises(i, TimedOutMessage(unit[i].cfg[1].stream_timeout), hist)
    ELSE IF unit[i].attempt + 1 \in RetryRange(unit[i].cfg[1])
         THEN NextAttempt(i, hist)
         ELSE UnitRaises(i, UnexpectedMessage, hist)

\* async with semaphore: the unit is admitted, builds item_config and enters
\* the retry loop up to the first await of wait_for.
Acquire(i) ==
    /\ pc = "running"
    /\ i \in Units
    /\ unit[i].st = "pending"
    /\ ~Locked(semaphore)
    /\ LET cfg == ItemConfig(items[i], tts_config[1])
       IN IF RetryRange(cfg) = {}
          THEN \* the loop body never runs: line 89 raises with the permit held
               /\ unit' = [unit EXCEPT ![i] = [PendingUnit EXCEPT
                               !.st = "done", !.cfg = Some(cfg),
                               !.result = Some(ResultOnException(items[i], UnexpectedMessage))]]
               /\ semaphore' = semaphore
               /\ out_of_order' = (out_of_order \/ Overtakes(i))
          ELSE /\ unit' = [unit EXCEPT ![i] = [PendingUnit EXCEPT
                               !.st = "inflight", !.cfg = Some(cfg)]]
               /\ semaphore' = semaphore - 1
               /\ out_of_order' = out_of_order
    /\ UNCHANGED << text_speaker_items, config, pc, items, tts_config, loop, entry, results, ret, sched_exc, exc, teardown, other_vars >>

\* async for chunk in tts.stream(): one chunk arrives
StreamChunk(i) ==
    /\ pc = "running"
    /\ i \in Units
    /\ InFlight(i)
    /\ unit[i].seen < items[i].text
    /\ \E type \in ChunkTypes :
          LET chunk == [type |-> type, data |-> unit[i].attempt + 1]
          IN unit' = [unit EXCEPT ![i].seen = @ + 1,
                                  ![i].audio = CollectChunk(@, chunk)]
    /\ UNCHANGED << text_speaker_items, config, pc, items, tts_config, loop, semaphore,
                    out_of_order, entry, results, ret, sched_exc, exc, teardown, other_vars >>

\* the stream ends before the deadline: _collect_audio returns its buffer
StreamEnd(i) ==
    /\ pc = "running"
    /\ i \in Units
    /\ InFlight(i)
    /\ Finish(i, ResultOnSuccess(items[i], unit[i].audio),
              Append(unit[i].history, Ended("complete", << >>)), unit[i].audio)

\* the deadline of wait_for expires: it cancels _collect_audio and raises
\* asyncio.TimeoutError
DeadlineExpires(i) ==
    /\ pc = "running"
    /\ i \in Units
    /\ InFlight(i)
    /\ OnTimeoutError(i, Append(unit[i].history, Ended("deadline", << >>)))

\* the stream raises inside _collect_audio
StreamRaises(i) ==
    /\ pc = "running"
    /\ i \in Units
    /\ InFlight(i)
    /\ \E e \in StreamExceptions :
          IF IsTimeoutError(e)
          THEN OnTimeoutError(i, Append(unit[i].history, Ended("stream_timeout", e.msg)))
          ELSE UnitRaises(i, e.msg, Append(unit[i].history, Ended("exception", e.msg)))

\* --------------------------------------------------------- _shutdown_loop
\* the calls of the try block that can raise an Exception: gather collects the
\* exceptions of the cancelled tasks (return_exceptions=True), the two
\* shutdown calls have nothing that shields them
FailPoints == {"none", "shutdown_asyncgens", "shutdown_default_executor"}

\* asyncio.all_tasks(loop): the unfinished tasks of the loop
PendingTasks ==
    { << "task", i >> : i \in { j \in DOMAIN loop_tasks : loop_tasks[j] = "pending" } }
    \cup { << "unit", i >> : i \in { j \in DOMAIN unit : unit[j].st # "done" } }

\* the steps of _shutdown_loop that run when the call named by fail raises
ShutdownSteps(pending, fail) ==
    << "cancel" >>
    \o (IF pending # {} THEN << "await" >> ELSE << >>)
    \o << "shutdown_asyncgens" >>
    \o (IF fail = "shutdown_asyncgens" THEN << >> ELSE << "shutdown_default_executor" >>)
    \o << "close" >>

\* variant: loop.close() at the end of the try block instead of in finally
LoopAfterShutdownNoFinally(fail) == IF fail = "none" THEN "closed" ELSE "open"

\* finally: loop.close()
LoopAfterShutdown(fail) == "closed"

\* task.cancel() for every pending task, then the tasks run to their end
CancelledTasks(tasks) ==
    [i \in DOMAIN tasks |-> IF tasks[i] = "pending" THEN "cancelled" ELSE tasks[i]]

\* _shutdown_loop(loop), the call named by fail raising
ShutdownLoop(fail) ==
    /\ teardown' = ShutdownSteps(PendingTasks, fail)
    /\ loop_tasks' = CancelledTasks(loop_tasks)
    /\ loop' = LoopAfterShutdown(fail)

\* _shutdown_loop called on a loop of its own, as the tests do
ShutdownLoopCall ==
    /\ entry = "_shutdown_loop"
    /\ pc = "idle"
    /\ \E fail \in FailPoints : ShutdownLoop(fail)
    /\ pc' = "returned"
    /\ UNCHANGED << text_speaker_items, config, items, tts_config, semaphore, unit,
                    out_of_order, entry, results, ret, sched_exc, exc, query_ret, driver, dialog, runtime >>

\* ------------------------------------------------------- synthesize_batch
RECURSIVE LexLess(_, _)
\* a < b for two str of digits
LexLess(a, b) ==
    IF a = << >> THEN b # << >>
    ELSE IF b = << >> THEN FALSE
    ELSE IF a[1] # b[1] THEN a[1] < b[1]
    ELSE LexLess(Tail(a), Tail(b))

\* r placed behind every element of the sorted list whose key is not greater
InsertByIdentifier(sorted, r) ==
    LET keep == { k \in 0 .. Len(sorted) :
                    \A j \in 1 .. k : ~LexLess(r.identifier, sorted[j].identifier) }
        k == CHOOSE m \in keep : \A o \in keep : o <= m
    IN SubSeq(sorted, 1, k) \o << r >> \o SubSeq(sorted, k + 1, Len(sorted))

RECURSIVE SortedByIdentifier(_)
\* sorted(..., key=identifier): stable, ascending in str order
SortedByIdentifier(rs) ==
    IF rs = << >> THEN << >>
    ELSE InsertByIdentifier(SortedByIdentifier(SubSeq(rs, 1, Len(rs) - 1)), rs[Len(rs)])

\* variant: the results sorted by identifier, as the out-of-process runner does
GatherSortedByIdentifier(tasks) ==
    SortedByIdentifier([i \in 1 .. Len(tasks) |-> tasks[i].result[1]])

\* variant: only the results of the units that did not fail
GatherDropsFailed(tasks) ==
    SelectSeq([i \in 1 .. Len(tasks) |-> tasks[i].result[1]], LAMBDA r : r.error = None)

\* asyncio.gather(*tasks): the results of the tasks in the order of the tasks
Gather(tasks) == [i \in 1 .. Len(tasks) |-> tasks[i].result[1]]

AllDone == \A i \in Units : Done(i)

\* loop = asyncio.new_event_loop(); run_until_complete(_synthesize_batch_async)
\* up to the first suspension: the semaphore and one task per item exist.
StartBatch(its, cfg) ==
    /\ items' = its
    /\ tts_config' = Some(cfg)
    /\ loop' = "open"
    /\ semaphore' = BATCH_CONCURRENCY_LIMIT
    /\ unit' = [i \in 1 .. Len(its) |-> PendingUnit]
    /\ pc' = "running"
    /\ UNCHANGED << text_speaker_items, config, out_of_order, entry, results, ret, sched_exc, exc, teardown, other_vars >>

\* synthesize_batch has been called, directly or by synthesize_single
SchedulerCalled ==
    \/ entry = "synthesize_batch" /\ pc = "idle"
    \/ entry = "synthesize_single" /\ pc = "called"

SynthesizeBatchCall ==
    /\ SchedulerCalled
    /\ StartBatch(items, tts_config[1])

\* gather has every result: run_until_complete returns, the finally clause
\* runs _shutdown_loop, synthesize_batch returns the list.
SynthesizeBatchReturns ==
    /\ entry \in {"synthesize_batch", "synthesize_single"}
    /\ pc = "running"
    /\ AllDone
    /\ results' = Some(Gather(unit))
    /\ \E fail \in FailPoints : ShutdownLoop(fail)
    /\ pc' = "returned"
    /\ UNCHANGED << text_speaker_items, config, items, tts_config, semaphore, unit,
                    out_of_order, entry, ret, sched_exc, exc, query_ret, driver, dialog, runtime >>

\* ------------------------------------------------------ synthesize_single
NoAudioMessage == << "No audio returned from synthesis" >>

\* variant: the audio returned whenever it is not None
SingleOutcomeNotNone(rs) ==
    IF rs # << >> /\ Truthy(rs[1].error)
    THEN [raise |-> Some(rs[1].error[1]), value |-> None]
    ELSE IF rs # << >> /\ rs[1].audio # None
    THEN [raise |-> None, value |-> rs[1].audio]
    ELSE [raise |-> Some(NoAudioMessage), value |-> None]

\* the body of synthesize_single after the batch call: the message of the
\* RuntimeError it raises, or else the bytes it returns
SingleOutcome(rs) ==
    IF rs # << >> /\ Truthy(rs[1].error)
    THEN [raise |-> Some(rs[1].error[1]), value |-> None]
    ELSE IF rs # << >> /\ Truthy(rs[1].audio)
    THEN [raise |-> None, value |-> rs[1].audio]
    ELSE [raise |-> Some(NoAudioMessage), value |-> None]

\* synthesize_single(text, config): items = [TTSItem(identifier="0", text=text)]
SynthesizeSingleCall ==
    /\ entry = "synthesize_single"
    /\ pc = "idle"
    /\ \E text \in 0 .. MaxTextLen : items' = << TTSItem(Str(0), text, "") >>
    /\ pc' = "called"
    /\ UNCHANGED << text_speaker_items, config, tts_config, loop, semaphore, unit,
                    out_of_order, entry, results, ret, sched_exc, exc, teardown, other_vars >>

\* synthesize_batch has returned: synthesize_single raises or returns
SynthesizeSingleReturns ==
    /\ entry = "synthesize_single"
    /\ pc = "returned"
    /\ LET outcome == SingleOutcome(results[1]) IN
          IF outcome.raise # None
          THEN /\ exc' = Some([cls |-> "RuntimeError", msg |-> outcome.raise[1],
                               cause |-> None])
               /\ pc' = "raised"
               /\ UNCHANGED query_ret
          ELSE /\ query_ret' = outcome.value
               /\ pc' = "done"
               /\ UNCHANGED exc
    /\ UNCHANGED << text_speaker_items, config, items, tts_config, loop, semaphore, unit,
                    out_of_order, entry, results, ret, sched_exc, teardown, loop_tasks,
                    driver, dialog, runtime >>

\* ----------------------------------------------------- GenerateAudioBatch
FailedBatchMessage(msg) == << "Failed to synthesize text in batch: " >> \o msg

MissingAudioReason == << "Missing audio data", " in response" >>

\* variant: the loop body without its else branch
ClassifyWithoutElse(acc, result) ==
    IF Truthy(result.error)
    THEN BatchAudioResult(acc.audio_map,
                          Append(acc.item_errors, ItemError(result.identifier, result.error[1])))
    ELSE IF Truthy(result.audio)
    THEN BatchAudioResult(DictSet(acc.audio_map, result.identifier, result.audio[1]),
                          acc.item_errors)
    ELSE acc

\* one iteration of "for result in results"
Classify(acc, result) ==
    IF Truthy(result.error)
    THEN BatchAudioResult(acc.audio_map,
                          Append(acc.item_errors, ItemError(result.identifier, result.error[1])))
    ELSE IF Truthy(result.audio)
    THEN BatchAudioResult(DictSet(acc.audio_map, result.identifier, result.audio[1]),
                          acc.item_errors)
    ELSE BatchAudioResult(acc.audio_map,
                          Append(acc.item_errors, ItemError(result.identifier, MissingAudioReason)))

RECURSIVE PartitionStopsAtError(_, _)
\* variant: the loop ends at the first result that carries an error
PartitionStopsAtError(acc, rs) ==
    IF rs = << >> THEN acc
    ELSE IF Truthy(Head(rs).error) THEN Classify(acc, Head(rs))
    ELSE PartitionStopsAtError(Classify(acc, Head(rs)), Tail(rs))

RECURSIVE Partition(_, _)
\* for result in results: ...
Partition(acc, rs) ==
    IF rs = << >> THEN acc ELSE Partition(Classify(acc, Head(rs)), Tail(rs))

\* [TTSItem(identifier=str(identifier), text=text, voice=item_voice) for ...]
ToTTSItems(tsi) == [i \in 1 .. Len(tsi) |-> TTSItem(Str(tsi[i][1]), tsi[i][2], tsi[i][3])]

\* f"{value:+}unit": the sign is always written
Signed(value, suffix) ==
    [sign |-> IF value < 0 THEN "-" ELSE "+",
     digits |-> Str(IF value < 0 THEN -value ELSE value),
     suffix |-> suffix]

\* TTSConfig built from the add-on config and the first item's voice
ToTTSConfig(tsi, cfg) ==
    TTSConfig(tsi[1][3],
              Signed(Get(cfg, "pitch_slider_value", 0), "Hz"),
              Signed(Get(cfg, "speed_slider_value", 0), "%"),
              Signed(Get(cfg, "volume_slider_value", 0), "%"),
              Get(cfg, "stream_timeout_seconds", STREAM_TIMEOUT_SECONDS_DEFAULT),
              Get(cfg, "stream_timeout_retries", STREAM_TIMEOUT_RETRIES_DEFAULT))

\* GenerateAudioBatch has been called, by the driver or by GenerateAudioQuery
BatchCalled ==
    \/ entry = "GenerateAudioBatch" /\ pc = "idle"
    \/ entry = "GenerateAudioQuery" /\ pc = "called"

\* variant: no early return; text_speaker_items[0] raises IndexError
GenerateAudioBatchEmptyIndexError ==
    /\ BatchCalled
    /\ text_speaker_items = << >>
    /\ exc' = Some([cls |-> "IndexError", msg |-> << "list index out of range" >>,
                    cause |-> None])
    /\ pc' = "raised"
    /\ UNCHANGED << text_speaker_items, config, items, tts_config, loop, semaphore, unit,
                    out_of_order, entry, results, ret, sched_exc, teardown, other_vars >>

\* if not text_speaker_items: return BatchAudioResult(audio_map={}, item_errors=[])
GenerateAudioBatchEmpty ==
    /\ BatchCalled
    /\ text_speaker_items = << >>
    /\ ret' = Some(BatchAudioResult(EmptyDict, << >>))
    /\ pc' = "returned"
    /\ UNCHANGED << text_speaker_items, config, items, tts_config, loop, semaphore, unit,
                    out_of_order, entry, results, sched_exc, exc, teardown, other_vars >>

GenerateAudioBatchCall ==
    /\ BatchCalled
    /\ text_speaker_items # << >>
    /\ StartBatch(ToTTSItems(text_speaker_items), ToTTSConfig(text_speaker_items, config))

\* variant: the except clause returns what has been built instead of raising
BatchSwallows(e) ==
    /\ sched_exc' = Some(e)
    /\ ret' = Some(BatchAudioResult(EmptyDict, << >>))
    /\ pc' = "returned"
    /\ UNCHANGED << text_speaker_items, config, loop, semaphore, unit,
                    out_of_order, entry, results, exc, teardown, other_vars >>

\* synthesize_batch raises e: GenerateAudioBatch raises RuntimeError from e
BatchRaises(e) ==
    /\ sched_exc' = Some(e)
    /\ exc' = Some([cls |-> "RuntimeError", msg |-> FailedBatchMessage(e.msg),
                    cause |-> Some(e)])
    /\ pc' = "raised"
    /\ UNCHANGED << text_speaker_items, config, loop, semaphore, unit,
                    out_of_order, entry, results, ret, teardown, other_vars >>

\* asyncio.new_event_loop() raises inside synthesize_batch
NewEventLoopRaises ==
    /\ \E e \in LoopExceptions :
          \/ /\ BatchCalled
             /\ text_speaker_items # << >>
             /\ items' = ToTTSItems(text_speaker_items)
             /\ tts_config' = Some(ToTTSConfig(text_speaker_items, config))
             /\ BatchRaises(e)
          \/ /\ SchedulerCalled
             /\ sched_exc' = Some(e)
             /\ pc' = "raised"
             /\ UNCHANGED << text_speaker_items, config, items, tts_config, loop, semaphore,
                             unit, out_of_order, entry, results, ret, exc, teardown, other_vars >>

\* synthesize_batch returns; the results are partitioned into the
\* BatchAudioResult
GenerateAudioBatchReturns ==
    /\ entry \in {"GenerateAudioBatch", "GenerateAudioQuery"}
    /\ pc = "running"
    /\ AllDone
    /\ results' = Some(Gather(unit))
    /\ \E fail \in FailPoints : ShutdownLoop(fail)
    /\ ret' = Some(Partition(BatchAudioResult(EmptyDict, << >>), Gather(unit)))
    /\ pc' = "returned"
    /\ UNCHANGED << text_speaker_items, config, items, tts_config, semaphore, unit,
                    out_of_order, entry, sched_exc, exc, query_ret, driver, dialog, runtime >>

\* ----------------------------------------------------- GenerateAudioQuery
\* [(0, text, voice)]
QueryItems(text, voice) == << << 0, text, voice >> >>

PreviewFailedMessage(error) ==
    << "Audio generation failed for preview item ", error.identifier, ": " >> \o error.reason

PreviewMissingMessage == << "Preview audio missing from batch result" >>

\* variant: return batch_result.audio_map.get("0", b"") and nothing else
QueryOutcomeUnchecked(batch_result) ==
    [raise |-> None, value |-> Some(Get(batch_result.audio_map, Str(0), << >>))]

\* the body of GenerateAudioQuery after the batch call: what it raises, or
\* else what it returns
QueryOutcome(batch_result) ==
    IF batch_result.item_errors # << >>
    THEN [raise |-> Some(PreviewFailedMessage(batch_result.item_errors[1])), value |-> None]
    ELSE IF Get(batch_result.audio_map, Str(0), None) = None
    THEN [raise |-> Some(PreviewMissingMessage), value |-> None]
    ELSE [raise |-> None, value |-> Some(batch_result.audio_map[Str(0)])]

\* GenerateAudioQuery(text, voice, config) calls GenerateAudioBatch
GenerateAudioQueryCall ==
    /\ entry = "GenerateAudioQuery"
    /\ pc = "idle"
    /\ \E text \in 0 .. MaxTextLen, voice \in Voices :
          text_speaker_items' = QueryItems(text, voice)
    /\ pc' = "called"
    /\ UNCHANGED << config, items, tts_config, loop, semaphore, unit, out_of_order, entry,
                    results, ret, sched_exc, exc, teardown, other_vars >>

\* GenerateAudioBatch has returned: GenerateAudioQuery raises or returns the
\* bytes. (An exception of GenerateAudioBatch passes through unchanged.)
GenerateAudioQueryReturns ==
    /\ entry = "GenerateAudioQuery"
    /\ pc = "returned"
    /\ LET outcome == QueryOutcome(ret[1]) IN
          IF outcome.raise # None
          THEN /\ exc' = Some([cls |-> "RuntimeError", msg |-> outcome.raise[1],
                               cause |-> None])
               /\ pc' = "raised"
               /\ UNCHANGED query_ret
          ELSE /\ query_ret' = outcome.value
               /\ pc' = "done"
               /\ UNCHANGED exc
    /\ UNCHANGED << text_speaker_items, config, items, tts_config, loop, semaphore, unit,
                    out_of_order, entry, results, ret, sched_exc, teardown, loop_tasks,
                    driver, dialog, runtime >>

\* ------------------------------------------------------------ the inputs
Idle ==
    /\ pc = "idle"
    /\ semaphore = 0
    /\ unit = << >>
    /\ out_of_order = FALSE
    /\ results = None
    /\ ret = None
    /\ sched_exc = None
    /\ exc = None
    /\ teardown = << >>
    /\ query_ret = None

\* no event loop exists before synthesize_batch creates one
NoLoop == loop = "none" /\ loop_tasks = << >>

\* batches of up to MaxItems notes; the identifiers are the ids of distinct notes
InitOrder ==
    /\ entry = "GenerateAudioBatch"
    /\ \E ids \in DistinctSeqs(Ids, MaxItems), v \in Voices :
          text_speaker_items = [i \in 1 .. Len(ids) |-> << ids[i], 1, v >>]
    /\ config = [stream_timeout_retries |-> 0]
    /\ items = << >>
    /\ tts_config = None
    /\ NoLoop

\* batches larger than the concurrency limit
InitGate ==
    /\ entry = "GenerateAudioBatch"
    /\ \E n \in (BATCH_CONCURRENCY_LIMIT + 1) .. MaxGateItems, v \in Voices :
          text_speaker_items = [i \in 1 .. n |-> << i, 0, v >>]
    /\ config = [stream_timeout_retries |-> 0]
    /\ items = << >>
    /\ tts_config = None
    /\ NoLoop

\* one item, as synthesize_single submits it, under every retry count and timeout
InitClient ==
    /\ entry = "synthesize_batch"
    /\ text_speaker_items = << >>
    /\ config = EmptyDict
    /\ items \in { << >> } \cup { << TTSItem(Str(0), t, "") >> : t \in 0 .. MaxTextLen }
    /\ \E v \in Voices, t \in Timeouts, r \in (-1) .. MaxRetries :
          tts_config = Some(TTSConfig(v, Signed(0, "Hz"), Signed(0, "%"), Signed(0, "%"),
                                      t, r))
    /\ NoLoop

\* a loop with finished and unfinished tasks, handed to _shutdown_loop
InitTeardown ==
    /\ entry = "_shutdown_loop"
    /\ text_speaker_items = << >>
    /\ config = EmptyDict
    /\ items = << >>
    /\ tts_config = None
    /\ loop = "open"
    /\ \E n \in 0 .. MaxTasks : loop_tasks \in [1 .. n -> {"pending", "done"}]

\* three notes: the first fixes the batch-level voice, the second may name
\* another voice, the third may name none
InitVoice ==
    /\ entry = "GenerateAudioBatch"
    /\ \E v1 \in Voices, v2 \in Voices \cup OtherVoices, v3 \in OtherVoices \cup {""} :
          text_speaker_items = << << 1, 0, v1 >>, << 2, 0, v2 >>, << 3, 0, v3 >> >>
    /\ config \in Configs
    /\ items = << >>
    /\ tts_config = None
    /\ NoLoop

\* one text handed to synthesize_single under the default timeout and retries
InitSingle ==
    /\ entry = "synthesize_single"
    /\ text_speaker_items = << >>
    /\ config = EmptyDict
    /\ items = << >>
    /\ \E v \in Voices :
          tts_config = Some(TTSConfig(v, Signed(0, "Hz"), Signed(0, "%"), Signed(0, "%"),
                                      STREAM_TIMEOUT_SECONDS_DEFAULT,
                                      STREAM_TIMEOUT_RETRIES_DEFAULT))
    /\ NoLoop

\* a preview of one text under the add-on's default timeout and retries
InitQuery ==
    /\ entry = "GenerateAudioQuery"
    /\ text_speaker_items = << >>
    /\ config = EmptyDict
    /\ items = << >>
    /\ tts_config = None
    /\ NoLoop

Init == Idle /\ driver = None /\ dialog = None /\ runtime = None /\ (InitOrder \/ InitGate \/ InitClient \/ InitTeardown \/ InitQuery
                 \/ InitVoice \/ InitSingle)

Next ==
    \/ SynthesizeBatchCall
    \/ GenerateAudioBatchEmpty
    \/ GenerateAudioBatchCall
    \/ NewEventLoopRaises
    \/ \E i \in Units : Acquire(i)
    \/ \E i \in Units : StreamChunk(i)
    \/ \E i \in Units : StreamEnd(i)
    \/ \E i \in Units : DeadlineExpires(i)
    \/ \E i \in Units : StreamRaises(i)
    \/ SynthesizeBatchReturns
    \/ GenerateAudioBatchReturns
    \/ ShutdownLoopCall
    \/ GenerateAudioQueryCall
    \/ GenerateAudioQueryReturns
    \/ SynthesizeSingleCall
    \/ SynthesizeSingleReturns

Spec == Init /\ [][Next]_vars

\* The event loop runs every task that is ready: a pending unit is admitted
\* once the gate has a permit, an attempt ends (the stream ends or raises, or
\* the wait_for deadline expires), and a finished call returns.
Fairness ==
    /\ \A i \in 1 .. MaxGateItems :
          /\ WF_vars(Acquire(i))
          /\ WF_vars(StreamEnd(i) \/ DeadlineExpires(i) \/ StreamRaises(i))
    /\ WF_vars(SynthesizeBatchReturns)
    /\ WF_vars(GenerateAudioBatchReturns)

SpecFair == Spec /\ Fairness

\* ------------------------------------- onEdgeTTSOptionSelected.GenerateAudio
chunk_size == 10

AudioHandlingModes == {"skip", "append", "overwrite"}

\* pieces of a destination field's content
OldContent == [kind |-> "text", val |-> << >>]
Space == [kind |-> "space", val |-> << >>]
\* f"[sound:{filename}]", the file named by its fresh id
SoundRef(file_id) == [kind |-> "sound", val |-> << file_id >>]

\* the audio the speech service returns for a text
AudioOf(text) == << text >>

\* the local variables of GenerateAudio at its start, with the collection it
\* reads (text and fields per note id), the media directory (files) and the
\* progress dialog's cancel flag
DriverStart(notes, mode, text, fields, no_source) ==
    [pc |-> "scan", notes |-> notes, audio_handling_mode |-> mode,
     text |-> text, fields |-> fields, initial_fields |-> fields,
     no_source |-> no_source, files |-> << >>,
     notes_so_far |-> 0, skipped_count |-> 0, missing_text_skips |-> 0,
     pending_items |-> << >>, pending_note_ids |-> << >>,
     chunk_start |-> 0, chunk_items |-> << >>, chunk_note_ids |-> << >>,
     batch_result |-> None, next |-> 1,
     canceled |-> FALSE, failures |-> << >>, shown |-> << >>, exc |-> None,
     want_cancel |-> FALSE, observed |-> FALSE, batches |-> << >>]

\* a message box or tooltip shown to the user
Message(kind, body) == [kind |-> kind, body |-> body]

\* on_done: the exception that left GenerateAudio is shown in a critical box
OnDoneException(d, e) ==
    [d EXCEPT !.exc = Some(e), !.shown = Append(@, Message("critical", e.msg)),
              !.pc = "failed"]

\* note[source_field] on a note whose type has no such field
SourceFieldKeyError == [cls |-> "KeyError", msg |-> << "source_field" >>]

\* str.strip() on a field's content
RECURSIVE StripContent(_)
StripContent(content) ==
    IF content # << >> /\ Head(content) = Space THEN StripContent(Tail(content))
    ELSE IF content # << >> /\ Last(content) = Space
    THEN StripContent(SubSeq(content, 1, Len(content) - 1))
    ELSE content

\* getFieldContent(mw.col.get_note(note_id), destination_field)
GetFieldContent(d, note_id) == StripContent(d.fields[note_id])

\* variant: the scan ignores the audio handling mode
ScanNoteNoSkip(d, note_id) ==
    IF note_id \in d.no_source
    THEN [d EXCEPT !.exc = Some(SourceFieldKeyError)]
    ELSE IF d.text[note_id] = 0
    THEN [d EXCEPT !.notes_so_far = @ + 1, !.skipped_count = @ + 1,
                   !.missing_text_skips = @ + 1]
    ELSE [d EXCEPT !.pending_items =
                       Append(@, << Str(note_id), d.text[note_id], "en-US-JennyNeural" >>),
                   !.pending_note_ids = Append(@, note_id)]

\* variant: the scan counts a pending note, which the note loop counts again
ScanNoteCountsPending(d, note_id) ==
    IF d.audio_handling_mode = "skip" /\ GetFieldContent(d, note_id) # << >>
    THEN [d EXCEPT !.notes_so_far = @ + 1, !.skipped_count = @ + 1]
    ELSE IF note_id \in d.no_source
    THEN [d EXCEPT !.exc = Some(SourceFieldKeyError)]
    ELSE IF d.text[note_id] = 0
    THEN [d EXCEPT !.notes_so_far = @ + 1, !.skipped_count = @ + 1,
                   !.missing_text_skips = @ + 1]
    ELSE [d EXCEPT !.notes_so_far = @ + 1,
                   !.pending_items =
                       Append(@, << Str(note_id), d.text[note_id], "en-US-JennyNeural" >>),
                   !.pending_note_ids = Append(@, note_id)]

\* one iteration of the scanning loop, for note_id
ScanNote(d, note_id) ==
    IF d.audio_handling_mode = "skip" /\ GetFieldContent(d, note_id) # << >>
    THEN [d EXCEPT !.notes_so_far = @ + 1, !.skipped_count = @ + 1]
    ELSE IF note_id \in d.no_source
    THEN [d EXCEPT !.exc = Some(SourceFieldKeyError)]
    ELSE IF d.text[note_id] = 0
    THEN [d EXCEPT !.notes_so_far = @ + 1, !.skipped_count = @ + 1,
                   !.missing_text_skips = @ + 1]
    ELSE [d EXCEPT !.pending_items =
                       Append(@, << Str(note_id), d.text[note_id], "en-US-JennyNeural" >>),
                   !.pending_note_ids = Append(@, note_id)]

RECURSIVE ScanNotes(_, _)
\* for note_id in notes: ...
ScanNotes(d, notes) ==
    IF notes = << >> \/ d.exc # None
    THEN d
    ELSE ScanNotes(ScanNote(d, Head(notes)), Tail(notes))

\* the scanning loop and `if not pending_items: return`
AfterScan(d) ==
    LET scanned == ScanNotes(d, d.notes)
    IN IF scanned.exc # None
       THEN OnDoneException(scanned, scanned.exc[1])
       ELSE [scanned EXCEPT !.pc = IF scanned.pending_items = << >>
                                   THEN "done" ELSE "chunks"]

\* seq[start : stop] with Python's 0-based bounds
Slice(seq, start, stop) ==
    LET hi == IF stop < Len(seq) THEN stop ELSE Len(seq)
    IN IF start >= hi THEN << >> ELSE SubSeq(seq, start + 1, hi)

\* variant: a slice of chunk_size + 1 elements
ChunkOfOneMore(seq, chunk_start) == Slice(seq, chunk_start, chunk_start + chunk_size + 1)

\* seq[chunk_start : chunk_start + chunk_size]
ChunkOf(seq, chunk_start) == Slice(seq, chunk_start, chunk_start + chunk_size)

pipeline_vars ==
    << text_speaker_items, config, pc, items, tts_config, loop, semaphore, unit,
       out_of_order, entry, results, ret, sched_exc, exc, teardown, loop_tasks, query_ret, dialog, runtime >>

\* ghost: a batch call of the run, its items, how it ended, the notes handled
\* from it and whether cancellation had been requested when it ended
BatchCall(item_ids) ==
    [items |-> item_ids, ended |-> "no", handled |-> << >>, cancel_at_end |-> FALSE]

\* ghost update of the last batch call
LastBatch(d, field, value) ==
    [d EXCEPT !.batches[Len(d.batches)] = [@ EXCEPT ![field] = value]]

\* the notes of the run
DriverScan ==
    /\ entry = "GenerateAudio"
    /\ driver.pc = "scan"
    /\ driver' = AfterScan(driver)
    /\ UNCHANGED pipeline_vars

\* top of the chunk loop: poll want_cancel, slice the chunk, call
\* GenerateAudioBatch(chunk_items, config)
ChunkStart ==
    /\ entry = "GenerateAudio"
    /\ driver.pc = "chunks"
    /\ driver' =
          IF driver.want_cancel
          THEN [driver EXCEPT !.pc = "end", !.observed = TRUE]
          ELSE LET note_ids == ChunkOf(driver.pending_note_ids, driver.chunk_start)
               IN [driver EXCEPT !.chunk_items = ChunkOf(driver.pending_items,
                                                         driver.chunk_start),
                                 !.chunk_note_ids = note_ids,
                                 !.batch_result = None,
                                 !.batches = Append(@, BatchCall(note_ids)),
                                 !.pc = "batch"]
    /\ UNCHANGED pipeline_vars

\* how the items of one batch call can end: all with audio, or one of them
\* with an error or with neither audio nor error
OutcomePatterns == {"audio", "first_error", "last_defect", "all_error"}

\* the results synthesize_batch returns for chunk_items under a pattern
ResultsFor(chunk_items, pattern) ==
    [i \in 1 .. Len(chunk_items) |->
        LET identifier == chunk_items[i][1]
        IN IF pattern = "all_error" \/ (pattern = "first_error" /\ i = 1)
           THEN TTSResult(identifier, None, Some(<< "Service unavailable" >>))
           ELSE IF pattern = "last_defect" /\ i = Len(chunk_items)
           THEN TTSResult(identifier, Some(<< >>), None)
           ELSE TTSResult(identifier, Some(AudioOf(chunk_items[i][2])), None)]

\* GenerateAudioBatch returns the partitioned results of the chunk
DriverBatchReturns ==
    /\ entry = "GenerateAudio"
    /\ driver.pc = "batch"
    /\ \E pattern \in OutcomePatterns :
          driver' =
              LET batch_result == Partition(BatchAudioResult(EmptyDict, << >>),
                                            ResultsFor(driver.chunk_items, pattern))
                  d == [driver EXCEPT !.batch_result = Some(batch_result),
                                      !.next = 1, !.pc = "notes"]
              IN LastBatch(LastBatch(d, "ended", "returned"),
                           "cancel_at_end", driver.want_cancel)
    /\ UNCHANGED pipeline_vars

\* GenerateAudioBatch raises: the exception leaves GenerateAudio and on_done
\* shows the critical box
DriverBatchRaises ==
    /\ entry = "GenerateAudio"
    /\ driver.pc = "batch"
    /\ \E e \in LoopExceptions :
          driver' =
              LET d == OnDoneException(driver, [cls |-> "RuntimeError",
                                                msg |-> FailedBatchMessage(e.msg)])
              IN LastBatch(LastBatch(d, "ended", "raised"),
                           "cancel_at_end", driver.want_cancel)
    /\ UNCHANGED pipeline_vars

\* {error.identifier: error.reason for error in batch_result.item_errors}
ErrorLookup(item_errors) ==
    [identifier \in { item_errors[i].identifier : i \in DOMAIN item_errors } |->
        LET last == CHOOSE i \in DOMAIN item_errors :
                       /\ item_errors[i].identifier = identifier
                       /\ \A j \in DOMAIN item_errors :
                             item_errors[j].identifier = identifier => j <= i
        IN item_errors[last].reason]

\* f"{identifier}: {reason}"
Failure(identifier, reason) == [identifier |-> identifier, reason |-> reason]

\* variant: the field's content is used as stored, untrimmed
WriteNoteUntrimmed(d, note_id, audio_data) ==
    LET file_id == Len(d.files) + 1
        current_content == d.fields[note_id]
    IN [d EXCEPT !.files = Append(@, audio_data),
                 !.fields[note_id] =
                     IF d.audio_handling_mode = "append" /\ current_content # << >>
                     THEN current_content \o << Space, SoundRef(file_id) >>
                     ELSE << SoundRef(file_id) >>]

\* the file is written and the note's destination field updated
WriteNote(d, note_id, audio_data) ==
    LET file_id == Len(d.files) + 1
        current_content == GetFieldContent(d, note_id)
    IN [d EXCEPT !.files = Append(@, audio_data),
                 !.fields[note_id] =
                     IF d.audio_handling_mode = "append" /\ current_content # << >>
                     THEN current_content \o << Space, SoundRef(file_id) >>
                     ELSE << SoundRef(file_id) >>]

\* variant: every note of the chunk gets the audio of the chunk's first item
HandleBodyFirstAudio(d, note_id) ==
    LET identifier == Str(note_id)
        error_lookup == ErrorLookup(d.batch_result[1].item_errors)
        audio_data == Get(d.batch_result[1].audio_map, Str(d.chunk_note_ids[1]), None)
        counted == [d EXCEPT !.notes_so_far = @ + 1]
    IN IF identifier \in DOMAIN error_lookup
       THEN [counted EXCEPT !.failures = Append(@, Failure(identifier,
                                                           error_lookup[identifier]))]
       ELSE IF audio_data = None
       THEN [counted EXCEPT !.failures =
                Append(@, Failure(identifier, << "No audio returned in batch result" >>))]
       ELSE WriteNote(counted, note_id, audio_data)

\* the body of the note loop up to updateProgress
HandleBody(d, note_id) ==
    LET identifier == Str(note_id)
        error_lookup == ErrorLookup(d.batch_result[1].item_errors)
        audio_data == Get(d.batch_result[1].audio_map, identifier, None)
        counted == [d EXCEPT !.notes_so_far = @ + 1]
    IN IF identifier \in DOMAIN error_lookup
       THEN [counted EXCEPT !.failures = Append(@, Failure(identifier,
                                                           error_lookup[identifier]))]
       ELSE IF audio_data = None
       THEN [counted EXCEPT !.failures =
                Append(@, Failure(identifier, << "No audio returned in batch result" >>))]
       ELSE WriteNote(counted, note_id, audio_data)

\* variant: the poll sets canceled but the loop goes on
AfterNoteNoBreak(d) ==
    LET polled == IF d.want_cancel
                  THEN [d EXCEPT !.canceled = TRUE, !.observed = TRUE]
                  ELSE d
    IN IF d.next = Len(d.chunk_note_ids)
       THEN [polled EXCEPT !.pc = "after_chunk"]
       ELSE [polled EXCEPT !.next = @ + 1]

\* if mw.progress.want_cancel(): canceled = True; break -- else the next note
AfterNote(d) ==
    IF d.want_cancel
    THEN [d EXCEPT !.canceled = TRUE, !.observed = TRUE, !.pc = "after_chunk"]
    ELSE IF d.next = Len(d.chunk_note_ids)
    THEN [d EXCEPT !.pc = "after_chunk"]
    ELSE [d EXCEPT !.next = @ + 1]

\* one iteration of the note loop of the chunk, with the poll that ends it
HandleNote ==
    /\ entry = "GenerateAudio"
    /\ driver.pc = "notes"
    /\ LET note_id == driver.chunk_note_ids[driver.next]
           handled == HandleBody(driver, note_id)
           logged == LastBatch(handled, "handled",
                               Append(Last(driver.batches).handled, note_id))
       IN driver' = AfterNote(logged)
    /\ UNCHANGED pipeline_vars

\* if canceled or mw.progress.want_cancel(): break -- else the next chunk_start
\* of range(0, len(pending_items), chunk_size)
AfterChunk ==
    /\ entry = "GenerateAudio"
    /\ driver.pc = "after_chunk"
    /\ driver' =
          IF driver.canceled \/ driver.want_cancel
          THEN [driver EXCEPT !.pc = "end", !.observed = TRUE]
          ELSE LET chunk_start == driver.chunk_start + chunk_size
               IN [driver EXCEPT !.chunk_start = chunk_start,
                                 !.pc = IF chunk_start < Len(driver.pending_items)
                                        THEN "chunks" ELSE "end"]
    /\ UNCHANGED pipeline_vars

\* after the chunk loop: the tooltip and the failure summary
DriverEnd ==
    /\ entry = "GenerateAudio"
    /\ driver.pc = "end"
    /\ driver' = [driver EXCEPT
                     !.shown = @ \o (IF driver.missing_text_skips > 0
                                     THEN << Message("tooltip",
                                                     << driver.missing_text_skips >>) >>
                                     ELSE << >>)
                                \o (IF driver.failures # << >>
                                     THEN << Message("warning", driver.failures) >>
                                     ELSE << >>),
                     !.pc = "done"]
    /\ UNCHANGED pipeline_vars

\* the user presses cancel on the progress dialog
UserCancels ==
    /\ entry = "GenerateAudio"
    /\ driver.pc \notin {"done", "failed"}
    /\ ~driver.want_cancel
    /\ driver' = [driver EXCEPT !.want_cancel = TRUE]
    /\ UNCHANGED pipeline_vars

\* the selected notes all have text and an empty destination field
InitChunks ==
    \E n \in 0 .. MaxNotes :
        driver = DriverStart([i \in 1 .. n |-> i], "overwrite",
                             [i \in 1 .. n |-> i], [i \in 1 .. n |-> << >>], {})

\* what a destination field can hold before the run: text, text with
\* whitespace around it, whitespace only
ExistingContents ==
    { << OldContent >>, << Space, OldContent, Space >>, << Space >> }

\* two or three notes under every mode: the first has content in the
\* destination field, the second has no text
InitModes ==
    \E mode \in AudioHandlingModes, n \in 2 .. 3, content \in ExistingContents :
        driver = DriverStart([i \in 1 .. n |-> i], mode,
                             [i \in 1 .. n |-> IF i = 2 THEN 0 ELSE i],
                             [i \in 1 .. n |-> IF i = 1 THEN content ELSE << >>],
                             {})

\* notes of two note types: the second note's type has no source field
InitFields ==
    \E mode \in AudioHandlingModes :
        driver = DriverStart(<< 1, 2, 3 >>, mode, << 1, 2, 3 >>,
                             << << >>, << >>, << >> >>, {2})

InitDriver ==
    /\ Idle
    /\ dialog = None /\ runtime = None
    /\ entry = "GenerateAudio"
    /\ text_speaker_items = << >>
    /\ config = EmptyDict
    /\ items = << >>
    /\ tts_config = None
    /\ NoLoop
    /\ (InitChunks \/ InitModes \/ InitFields)

NextDriver ==
    \/ DriverScan
    \/ ChunkStart
    \/ DriverBatchReturns
    \/ DriverBatchRaises
    \/ HandleNote
    \/ AfterChunk
    \/ DriverEnd
    \/ UserCancels

SpecDriver == InitDriver /\ [][NextDriver]_vars

\* ------------------------------------- external_tts_runner.synthesize_batch
\* base64.b64encode(data).decode("ascii"): an injective text encoding
Base64(data) == [base64 |-> data]

\* a task of queued_items: not started, inside the semaphore, or finished
\* with the bytes it returned or the exception it raised
QueuedTask == [st |-> "pending", value |-> None, exception |-> None]

\* {"id": identifier, "audio": ...} or {"id": identifier, "error": ...}
RunnerEntry(identifier, audio, error) == [id |-> identifier, audio |-> audio, error |-> error]

\* zip(identifiers, audio_results): gather keeps the order of the tasks
Paired(its, tasks) ==
    [i \in 1 .. Len(its) |-> [identifier |-> Str(its[i].id), result |-> tasks[i]]]

\* variant: the pairs left in the order of the payload
PairedInInputOrder(its, tasks) ==
    [i \in 1 .. Len(its) |-> [identifier |-> Str(its[i].id), result |-> tasks[i]]]

\* sorted(zip(...), key=lambda pair: pair[0])
PairedResults(its, tasks) == SortedByIdentifier(Paired(its, tasks))

\* the loop that builds results from paired_results
RunnerResults(paired_results) ==
    [k \in 1 .. Len(paired_results) |->
        LET identifier == paired_results[k].identifier
            result == paired_results[k].result
        IN IF result.exception # None
           THEN RunnerEntry(identifier, None, Some(result.exception[1].msg))
           ELSE RunnerEntry(identifier, Some(Base64(result.value[1])), None)]

\* the payload is read; one task per item is created behind the semaphore
RunnerCall ==
    /\ entry = "external_tts_runner"
    /\ pc = "idle"
    /\ semaphore' = BATCH_CONCURRENCY_LIMIT
    /\ unit' = [i \in 1 .. Len(items) |-> QueuedTask]
    /\ loop' = "open"
    /\ pc' = "running"
    /\ UNCHANGED << text_speaker_items, config, items, tts_config, out_of_order, entry,
                    results, ret, sched_exc, exc, teardown, other_vars >>

\* async with semaphore: task i enters
RunnerAcquire(i) ==
    /\ entry = "external_tts_runner"
    /\ pc = "running"
    /\ unit[i].st = "pending"
    /\ ~Locked(semaphore)
    /\ semaphore' = semaphore - 1
    /\ unit' = [unit EXCEPT ![i].st = "inflight"]
    /\ UNCHANGED << text_speaker_items, config, pc, items, tts_config, loop, out_of_order,
                    entry, results, ret, sched_exc, exc, teardown, other_vars >>

\* synthesize_text returns the audio of the stream, or the stream raises;
\* the semaphore is released either way
RunnerTaskEnds(i) ==
    /\ entry = "external_tts_runner"
    /\ pc = "running"
    /\ unit[i].st = "inflight"
    /\ semaphore' = semaphore + 1
    /\ \/ unit' = [unit EXCEPT ![i] = [st |-> "done", exception |-> None,
                                        value |-> Some(AudioOf(items[i].text))]]
       \/ \E e \in StreamExceptions :
             unit' = [unit EXCEPT ![i] = [st |-> "done", exception |-> Some(e),
                                          value |-> None]]
    /\ out_of_order' = (out_of_order \/ \E j \in 1 .. (i - 1) : unit[j].st # "done")
    /\ UNCHANGED << text_speaker_items, config, pc, items, tts_config, loop, entry,
                    results, ret, sched_exc, exc, teardown, other_vars >>

\* gather has every result: the pairs are sorted and the list is returned
RunnerReturns ==
    /\ entry = "external_tts_runner"
    /\ pc = "running"
    /\ \A i \in DOMAIN unit : unit[i].st = "done"
    /\ results' = Some(RunnerResults(PairedResults(items, unit)))
    /\ loop' = "closed"
    /\ pc' = "returned"
    /\ UNCHANGED << text_speaker_items, config, items, tts_config, semaphore, unit,
                    out_of_order, entry, ret, sched_exc, exc, teardown, other_vars >>

\* the payload of a batch file: items with distinct ids in any order
InitRunner ==
    /\ Idle
    /\ driver = None /\ dialog = None /\ runtime = None
    /\ entry = "external_tts_runner"
    /\ text_speaker_items = << >>
    /\ config = EmptyDict
    /\ \E ids \in DistinctSeqs(Ids, MaxItems) :
          items = [i \in 1 .. Len(ids) |-> [id |-> ids[i], text |-> i]]
    /\ tts_config = None
    /\ NoLoop

NextRunner ==
    \/ RunnerCall
    \/ \E i \in DOMAIN unit : RunnerAcquire(i)
    \/ \E i \in DOMAIN unit : RunnerTaskEnds(i)
    \/ RunnerReturns

SpecRunner == InitRunner /\ [][NextRunner]_vars

\* ------------------------------------------------------------- MyDialog
\* Field names and typed texts are sequences of string pieces; a single
\* space piece is whitespace. Combo box indices count from 0 as in Qt.
CREATE_NEW_FIELD_OPTION == << "[ + Create new field... ]" >>
PreviewVoiceText == "Preview Voice"
LoadingText == "Loading preview (may take a few seconds)..."
PlayingCachedText == "Playing cached preview..."

\* the fields shared by the selected notes, as sorted(self.common_fields)
CommonFieldLists ==
    { << << "Back" >>, << "Front" >> >>,
      << << "Audio" >>, << "Back" >>, << "Front" >> >> }

\* what the user can type into the name prompt
PromptPieces == { " ", "Front", "Voice" }
PromptTexts == UNION { [1 .. n -> PromptPieces] : n \in 0 .. MaxPromptLen }
Prompts == [field_name : PromptTexts, ok : BOOLEAN]

\* the pitch slider positions
Pitches == { 0, 1 }

\* str.strip()
RECURSIVE LStrip(_)
LStrip(s) == IF s # << >> /\ Head(s) = " " THEN LStrip(Tail(s)) ELSE s
RECURSIVE RStrip(_)
RStrip(s) ==
    IF s # << >> /\ s[Len(s)] = " " THEN RStrip(SubSeq(s, 1, Len(s) - 1)) ELSE s
Strip(s) == RStrip(LStrip(s))

\* str.lower() on the field names in use
Lower(field) ==
    IF field = << "Audio" >> THEN << "audio" >>
    ELSE IF field = << "Back" >> THEN << "back" >>
    ELSE IF field = << "Front" >> THEN << "front" >>
    ELSE field

\* QComboBox: count(), itemText(index), insertItem(index, text)
Count(combo) == Len(combo.items)
ItemText(combo, index) == combo.items[index + 1]
InsertItem(combo, index, text) ==
    [combo EXCEPT !.items = SubSeq(combo.items, 1, index) \o << text >>
                            \o SubSeq(combo.items, index + 1, Len(combo.items))]
SetCurrentIndex(combo, index) == [combo EXCEPT !.index = index]

\* the loop of __init__ that picks the initial destination index
RECURSIVE DestinationFieldIndex(_, _, _)
DestinationFieldIndex(fields, last_destination_field, i) ==
    IF i = 0 THEN 0
    ELSE LET before == DestinationFieldIndex(fields, last_destination_field, i - 1)
             field == fields[i]
         IN  IF last_destination_field = None
             THEN IF Lower(field) = << "audio" >> THEN i - 1 ELSE before
             ELSE IF field = last_destination_field[1] THEN i - 1 ELSE before

\* the dialog after __init__
DialogStart(fields, last_destination_field, source_index) ==
    [ common_fields        |-> fields,
      source_combo         |-> [items |-> fields, index |-> source_index],
      destination_combo    |->
          [items |-> fields \o << CREATE_NEW_FIELD_OPTION >>,
           index |-> DestinationFieldIndex(fields, last_destination_field, Len(fields))],
      new_field_name       |-> None,
      pitch                |-> 0,
      preview_voice_button |-> [text |-> PreviewVoiceText, enabled |-> TRUE],
      _preview_cache       |-> None,
      task                 |-> None,
      main                 |-> << >>,
      run                  |-> None,
      \* bookkeeping of the last name prompt
      prompted             |-> "no",
      previous_index       |-> 0 ]

\* onDestinationChanged(index), with what the name prompt returns
OnDestinationChanged(d, index, prompt) ==
    LET combo == d.destination_combo
        field_name == Strip(prompt.field_name)
    IN  IF ItemText(combo, index) # CREATE_NEW_FIELD_OPTION
        THEN d
        ELSE IF prompt.ok /\ field_name # << >>
        THEN IF \E i \in DOMAIN d.common_fields : d.common_fields[i] = field_name
             THEN [d EXCEPT !.destination_combo = SetCurrentIndex(combo, 0)]
             ELSE LET insert_index == Count(combo) - 1
                  IN  [d EXCEPT !.new_field_name = Some(field_name),
                                !.destination_combo =
                                    SetCurrentIndex(InsertItem(combo, insert_index, field_name),
                                                    insert_index)]
        ELSE [d EXCEPT !.destination_combo = SetCurrentIndex(combo, 0)]

\* which branch of onDestinationChanged the prompt's answer takes
Prompted(d, index, prompt) ==
    IF ItemText(d.destination_combo, index) # CREATE_NEW_FIELD_OPTION THEN "no"
    ELSE IF prompt.ok /\ Strip(prompt.field_name) # << >>
    THEN IF \E i \in DOMAIN d.common_fields : d.common_fields[i] = Strip(prompt.field_name)
         THEN "exists" ELSE "created"
    ELSE "cancelled"

\* every variable but the dialog
non_dialog_vars ==
    << text_speaker_items, config, pc, items, tts_config, loop, semaphore, unit,
       out_of_order, entry, results, ret, sched_exc, exc, teardown, loop_tasks, query_ret,
       driver, runtime >>

\* the user picks another entry of the destination dropdown: the combo box
\* moves to it and emits currentIndexChanged
SelectDestination ==
    /\ entry = "MyDialog"
    /\ dialog.run = None
    /\ \E index \in 0 .. Count(dialog.destination_combo) - 1, prompt \in Prompts :
          /\ index # dialog.destination_combo.index
          /\ ItemText(dialog.destination_combo, index) = CREATE_NEW_FIELD_OPTION
                => Count(dialog.destination_combo)
                       <= Len(dialog.common_fields) + MaxNewFields
          /\ ItemText(dialog.destination_combo, index) # CREATE_NEW_FIELD_OPTION
                => prompt = [field_name |-> << >>, ok |-> FALSE]
          /\ dialog' = [OnDestinationChanged(
                            [dialog EXCEPT !.destination_combo = SetCurrentIndex(@, index)],
                            index, prompt)
                            EXCEPT !.prompted = Prompted(dialog, index, prompt),
                                   !.previous_index = dialog.destination_combo.index]
    /\ UNCHANGED non_dialog_vars

\* the user picks another entry of the source dropdown (several notes
\* selected: the change also resets the preview cache)
SelectSource ==
    /\ entry = "MyDialog"
    /\ dialog.run = None
    /\ \E index \in 0 .. Count(dialog.source_combo) - 1 :
          /\ index # dialog.source_combo.index
          /\ dialog' = [dialog EXCEPT !.source_combo = SetCurrentIndex(@, index),
                                      !._preview_cache = None]
    /\ UNCHANGED non_dialog_vars

\* the user moves the pitch slider: update_this_slider
MoveSlider ==
    /\ entry = "MyDialog"
    /\ dialog.run = None
    /\ \E value \in Pitches :
          /\ value # dialog.pitch
          /\ dialog' = [dialog EXCEPT !.pitch = value, !._preview_cache = None]
    /\ UNCHANGED non_dialog_vars

\* cache_key = (preview_text, speaker, pitch, rate, volume)
CacheKey(d) == [source |-> d.source_combo.index, pitch |-> d.pitch]

\* a closure handed to mw.taskman.run_on_main
Closure(fn, original_text) == [fn |-> fn, original_text |-> original_text]

\* PreviewVoice up to its return: the button press
PreviewVoicePressed(d, has_text) ==
    LET cache_key == CacheKey(d)
        original_text == d.preview_voice_button.text
    IN  IF ~has_text THEN d
        ELSE IF Truthy(d._preview_cache) /\ d._preview_cache[1] = cache_key
        THEN [d EXCEPT !.preview_voice_button = [text |-> PlayingCachedText, enabled |-> FALSE],
                       !.main = Append(@, Closure("play_cached", original_text))]
        ELSE [d EXCEPT !.preview_voice_button = [text |-> LoadingText, enabled |-> FALSE],
                       !.task = Some([cache_key |-> cache_key, original_text |-> original_text])]

\* the user presses the enabled preview button while nothing is queued
PreviewVoice ==
    /\ entry = "MyDialog"
    /\ dialog.run = None
    /\ dialog.preview_voice_button.enabled
    /\ dialog.main = << >>
    /\ dialog.task = None
    /\ \E has_text \in BOOLEAN :
          dialog' = PreviewVoicePressed(dialog, has_text)
    /\ UNCHANGED non_dialog_vars

\* on_preview_done(future): generate_preview returned or raised
OnPreviewDone(d, raised) ==
    LET t == d.task[1]
        queued == << Closure("setEnabled", t.original_text),
                     Closure("setText", t.original_text) >>
    IN  IF raised
        THEN [d EXCEPT !.task = None,
                       !.main = @ \o queued \o << Closure("critical", t.original_text) >>]
        ELSE [d EXCEPT !.task = None,
                       !._preview_cache = Some(t.cache_key),
                       !.main = @ \o queued \o << Closure("play_preview", t.original_text) >>]

PreviewDone ==
    /\ entry = "MyDialog"
    /\ dialog.task # None
    /\ \E raised \in BOOLEAN : dialog' = OnPreviewDone(dialog, raised)
    /\ UNCHANGED non_dialog_vars

\* the main thread runs the closure at the head of its queue; writing or
\* playing the file may raise
RunClosure(d, c, raises) ==
    LET rest == [d EXCEPT !.main = Tail(@)]
    IN  IF c.fn = "play_cached"
        THEN IF raises \/ d._preview_cache = None THEN rest
             ELSE [rest EXCEPT !.preview_voice_button =
                                   [text |-> c.original_text, enabled |-> TRUE]]
        ELSE IF c.fn = "setEnabled"
        THEN [rest EXCEPT !.preview_voice_button.enabled = TRUE]
        ELSE IF c.fn = "setText"
        THEN [rest EXCEPT !.preview_voice_button.text = c.original_text]
        ELSE rest

RunOnMain ==
    /\ entry = "MyDialog"
    /\ dialog.main # << >>
    /\ \E raises \in BOOLEAN :
          /\ raises => Head(dialog.main).fn \in { "play_cached", "play_preview" }
          /\ dialog' = RunClosure(dialog, Head(dialog.main), raises)
    /\ UNCHANGED non_dialog_vars

\* pre_accept lets the dialog close: a destination other than the create
\* entry, and not the source field unless a new field was named
PreAccepts(d) ==
    /\ ItemText(d.destination_combo, d.destination_combo.index) # CREATE_NEW_FIELD_OPTION
    /\ ~(d.new_field_name = None /\ d.source_combo.index = d.destination_combo.index)

\* onEdgeTTSOptionSelected after dialog.exec(): the destination the dropdown
\* shows, the field the run creates and the field GenerateAudio writes to
RunOf(d) ==
    LET destination_text == ItemText(d.destination_combo, d.destination_combo.index)
    IN  [ shown             |-> destination_text,
          created           |-> IF Truthy(d.new_field_name) THEN d.new_field_name ELSE None,
          destination_field |-> IF Truthy(d.new_field_name)
                                THEN d.new_field_name[1] ELSE destination_text ]

\* the user presses Generate and pre_accept accepts
Accept ==
    /\ entry = "MyDialog"
    /\ dialog.run = None
    /\ PreAccepts(dialog)
    /\ dialog' = [dialog EXCEPT !.run = Some(RunOf(dialog))]
    /\ UNCHANGED non_dialog_vars

\* a dialog opened on notes that share fields, with the last destination the
\* config remembers
InitDialog ==
    /\ Idle
    /\ driver = None /\ runtime = None
    /\ entry = "MyDialog"
    /\ text_speaker_items = << >>
    /\ config = EmptyDict
    /\ items = << >>
    /\ tts_config = None
    /\ NoLoop
    /\ \E fields \in CommonFieldLists, source_index \in 0 .. 1,
          last \in { None, Some(<< "Back" >>), Some(<< "Front" >>), Some(<< "Gone" >>) } :
          dialog = DialogStart(fields, last, source_index)

NextDialog ==
    \/ SelectDestination
    \/ SelectSource
    \/ MoveSlider
    \/ PreviewVoice
    \/ PreviewDone
    \/ RunOnMain
    \/ Accept

SpecDialog == InitDialog /\ [][NextDialog]_vars

\* ------------------------------------------------------ external_runtime
\* retries: int = 3
DOWNLOAD_RETRIES == 3

\* A file's content is the sequence of the chunks written to it. GetPip is the
\* published get-pip.py, Tampered what a corrupted or hostile transfer sends.
GetPip == << 1, 2 >>
Tampered == << 1, 3 >>
Served == { GetPip, Tampered }

\* hashlib.sha256 over the chunks: distinct contents have distinct digests
Sha256(content) == [sha256 |-> content]

\* EXPECTED_HASHES[GET_PIP_URL]
ExpectedHash == Sha256(GetPip)

\* the state of a bootstrap at its start: the function entered, the
\* expected_hash argument, the file at the destination path, the scripts
\* executed so far
RuntimeStart(caller, expected_hash) ==
    [pc |-> "idle", caller |-> caller, expected_hash |-> expected_hash,
     attempt |-> 0, served |-> << >>, file |-> None, completed |-> FALSE,
     executed |-> << >>, runs |-> 1]

\* every variable but the runtime
non_runtime_vars ==
    << text_speaker_items, config, pc, items, tts_config, loop, semaphore, unit,
       out_of_order, entry, results, ret, sched_exc, exc, teardown, loop_tasks, query_ret,
       driver, dialog >>

\* if os.path.exists(destination): os.remove(destination)
RemoveIfExists(r) == [r EXCEPT !.file = None]

\* except Exception: raise RuntimeError after the last attempt, otherwise
\* remove the partial file and go to the next attempt
OnDownloadException(r) ==
    IF r.attempt = DOWNLOAD_RETRIES
    THEN [r EXCEPT !.pc = "raised"]
    ELSE [RemoveIfExists(r) EXCEPT !.attempt = @ + 1, !.pc = "attempt"]

\* for attempt in range(1, retries + 1)
FirstAttempt(r) == [r EXCEPT !.attempt = 1, !.completed = FALSE, !.pc = "attempt"]

\* _download(url, destination, expected_hash=...) is called
DownloadCall ==
    /\ entry = "external_runtime"
    /\ runtime.pc = "idle"
    /\ runtime.caller = "_download"
    /\ runtime' = FirstAttempt(runtime)
    /\ UNCHANGED non_runtime_vars

\* _ensure_get_pip: download only when no file is at script_path
EnsureGetPipCall ==
    /\ entry = "external_runtime"
    /\ runtime.pc = "idle"
    /\ runtime.caller = "_ensure_get_pip"
    /\ runtime' = IF runtime.file = None
                  THEN FirstAttempt(runtime)
                  ELSE [runtime EXCEPT !.pc = "run"]
    /\ UNCHANGED non_runtime_vars

\* top of an attempt: the old file is removed, urlopen connects or raises,
\* the destination is opened for writing
AttemptStarts ==
    /\ entry = "external_runtime"
    /\ runtime.pc = "attempt"
    /\ \E served \in Served, connects \in BOOLEAN :
          runtime' =
              IF connects
              THEN [RemoveIfExists(runtime) EXCEPT !.file = Some(<< >>),
                                                   !.served = served,
                                                   !.pc = "streaming"]
              ELSE OnDownloadException(RemoveIfExists(runtime))
    /\ UNCHANGED non_runtime_vars

\* response.read(8192): the next chunk is written, or the read raises
ReadChunk ==
    /\ entry = "external_runtime"
    /\ runtime.pc = "streaming"
    /\ Len(runtime.file[1]) < Len(runtime.served)
    /\ \E raises \in BOOLEAN :
          runtime' =
              IF raises
              THEN OnDownloadException(runtime)
              ELSE [runtime EXCEPT
                       !.file = Some(Append(@[1], runtime.served[Len(@[1]) + 1]))]
    /\ UNCHANGED non_runtime_vars

\* the response is exhausted: the digest is compared with expected_hash
StreamEnds ==
    /\ entry = "external_runtime"
    /\ runtime.pc = "streaming"
    /\ Len(runtime.file[1]) = Len(runtime.served)
    /\ runtime' =
          LET actual_hash == Sha256(runtime.file[1])
          IN  IF runtime.expected_hash # None /\ actual_hash # runtime.expected_hash[1]
              THEN OnDownloadException(RemoveIfExists(runtime))
              ELSE [runtime EXCEPT !.completed = TRUE,
                                   !.pc = IF runtime.caller = "_ensure_get_pip"
                                          THEN "run" ELSE "returned"]
    /\ UNCHANGED non_runtime_vars

\* subprocess.run([python_exe, script_path, ...]): the file at script_path
\* is executed
RunScript ==
    /\ entry = "external_runtime"
    /\ runtime.pc = "run"
    /\ runtime' = [runtime EXCEPT !.executed = Append(@, runtime.file[1]),
                                  !.pc = "returned"]
    /\ UNCHANGED non_runtime_vars

\* the process is killed during the bootstrap; the next start finds the
\* files as they were left
Interrupted ==
    /\ entry = "external_runtime"
    /\ runtime.pc \in { "attempt", "streaming", "run" }
    /\ runtime.runs < MaxRuns
    /\ runtime' = [runtime EXCEPT !.pc = "idle", !.attempt = 0, !.runs = @ + 1]
    /\ UNCHANGED non_runtime_vars

\* the bootstrap is entered again after it returned or raised
NextRun ==
    /\ entry = "external_runtime"
    /\ runtime.pc \in { "returned", "raised" }
    /\ runtime.runs < MaxRuns
    /\ runtime' = [runtime EXCEPT !.pc = "idle", !.attempt = 0, !.runs = @ + 1]
    /\ UNCHANGED non_runtime_vars

\* an empty cache directory; _download is called with or without a hash
InitRuntime ==
    /\ Idle
    /\ driver = None /\ dialog = None
    /\ entry = "external_runtime"
    /\ text_speaker_items = << >>
    /\ config = EmptyDict
    /\ items = << >>
    /\ tts_config = None
    /\ NoLoop
    /\ \/ \E expected_hash \in { None, Some(ExpectedHash) } :
             runtime = RuntimeStart("_download", expected_hash)
       \/ runtime = RuntimeStart("_ensure_get_pip", Some(ExpectedHash))

NextRuntime ==
    \/ DownloadCall
    \/ EnsureGetPipCall
    \/ AttemptStarts
    \/ ReadChunk
    \/ StreamEnds
    \/ RunScript
    \/ Interrupted
    \/ NextRun

SpecRuntime == InitRuntime /\ [][NextRuntime]_vars

\* ------------------------------------------------------------ properties
Returned == results # None
Identifiers(seq) == [i \in 1 .. Len(seq) |-> seq[i].identifier]
InFlightUnits == { i \in DOMAIN unit : unit[i].st = "inflight" }
Retries(u) == u.cfg[1].stream_timeout_retries
Contains(s, piece) == \E j \in DOMAIN s : s[j] = piece
ErrorIds(br) == { br.item_errors[k].identifier : k \in DOMAIN br.item_errors }
Defect(r) == ~Truthy(r.error) /\ ~Truthy(r.audio)

\* C1: the i-th result returned by the scheduler carries the identifier of
\* the i-th input item, whatever the completion order and the identifiers.
C1_InputOrder ==
    Returned =>
        \A i \in DOMAIN items :
            /\ i \in DOMAIN results[1]
            /\ results[1][i].identifier = items[i].identifier

\* the batch "9", "1", "10" has returned and a later unit finished before an
\* earlier one
C1_Witness ==
    /\ Returned
    /\ out_of_order
    /\ Identifiers(items) = << Str(9), Str(1), Str(10) >>

\* C2: the scheduler returns exactly one result per input item, for every
\* N >= 0 and every mix of successes, timeouts and exceptions.
C2_OneResultPerItem ==
    Returned => Len(results[1]) = Len(items)

\* three items have returned: one succeeded, one ran out of time, one raised
C2_Witness ==
    /\ Returned
    /\ Len(items) = 3
    /\ \E i, j, k \in DOMAIN unit :
          /\ Last(unit[i].history).kind = "complete"
          /\ Last(unit[j].history).kind = "deadline"
          /\ Last(unit[k].history).kind = "exception"

\* C3: at every instant at most BATCH_CONCURRENCY_LIMIT synthesis calls are
\* admitted through the gate and unfinished.
C3_ConcurrencyBound ==
    Cardinality(InFlightUnits) <= BATCH_CONCURRENCY_LIMIT

\* the gate is full while another unit of the batch waits for a permit
C3_Witness ==
    /\ Cardinality(InFlightUnits) = BATCH_CONCURRENCY_LIMIT
    /\ \E i \in DOMAIN unit : unit[i].st = "pending"

\* the message of the exception that ended the synthesis call of a failed unit
RaisedMessage(u) ==
    IF u.history = << >> THEN UnexpectedMessage
    ELSE IF Last(u.history).kind = "exception" THEN Last(u.history).msg
    ELSE TimedOutMessage(u.cfg[1].stream_timeout)

Succeeded(u) == u.history # << >> /\ Last(u.history).kind = "complete"

\* C4: a failed item gets a result with the exception's message as error and
\* no audio; every other item's result is decided by its own synthesis alone;
\* no exception of an item leaves the batch call.
C4_FailureIsolation ==
    /\ \A i \in DOMAIN unit :
          unit[i].st = "done" =>
              IF Succeeded(unit[i])
              THEN unit[i].result = Some(TTSResult(items[i].identifier, Some(unit[i].audio), None))
              ELSE unit[i].result =
                       Some(TTSResult(items[i].identifier, None, Some(RaisedMessage(unit[i]))))
    /\ Returned => \A i \in DOMAIN unit : results[1][i] = unit[i].result[1]
    /\ sched_exc # None => unit = << >>

\* item 2 of 3 raised, items 1 and 3 returned audio, and the batch returned
C4_Witness ==
    /\ Returned
    /\ Len(items) = 3
    /\ Last(unit[2].history).kind = "exception"
    /\ results[1][2].error = Some(<< "Service unavailable" >>)
    /\ Truthy(results[1][1].audio)
    /\ Truthy(results[1][3].audio)

\* C5: a call with retry count r >= 0 whose every attempt runs into the
\* deadline makes exactly r+1 attempts and fails with a message naming the
\* configured timeout; no unit ever starts attempt r+2.
C5_RetryExhaustion ==
    \A i \in DOMAIN unit :
        (unit[i].cfg # None /\ Retries(unit[i]) >= 0) =>
            /\ Attempts(unit[i]) <= Retries(unit[i]) + 1
            /\ ( /\ unit[i].st = "done"
                 /\ unit[i].history # << >>
                 /\ \A j \in DOMAIN unit[i].history : unit[i].history[j].kind = "deadline" )
               => /\ Len(unit[i].history) = Retries(unit[i]) + 1
                  /\ unit[i].result[1].audio = None
                  /\ unit[i].result[1].error =
                         Some(<< "Timed out after ", tts_config[1].stream_timeout,
                                 " seconds while streaming audio" >>)

\* a call with MaxRetries retries and a timeout other than the default has
\* failed after MaxRetries + 1 expired deadlines
C5_Witness ==
    \E i \in DOMAIN unit :
        /\ unit[i].st = "done"
        /\ Retries(unit[i]) = MaxRetries
        /\ tts_config[1].stream_timeout # STREAM_TIMEOUT_SECONDS_DEFAULT
        /\ Len(unit[i].history) = MaxRetries + 1
        /\ \A j \in DOMAIN unit[i].history : unit[i].history[j].kind = "deadline"

\* C6: when attempt k completes after k-1 attempts that timed out, the call
\* returns the audio of attempt k alone, after exactly k attempts.
C6_RetryThenSucceed ==
    \A i \in DOMAIN unit :
        (unit[i].st = "done" /\ Succeeded(unit[i])) =>
            LET k == Len(unit[i].history)
                audio == unit[i].result[1].audio
            IN /\ k <= Retries(unit[i]) + 1
               /\ unit[i].attempt + 1 = k
               /\ unit[i].result[1].error = None
               /\ audio # None
               /\ Len(audio[1]) <= items[i].text
               /\ \A j \in DOMAIN audio[1] : audio[1][j] = k

\* the first attempt ran into the deadline and the second one returned the
\* audio it received
C6_Witness ==
    \E i \in DOMAIN unit :
        /\ unit[i].st = "done"
        /\ Len(unit[i].history) = 2
        /\ unit[i].history[1].kind = "deadline"
        /\ unit[i].history[2].kind = "complete"
        /\ unit[i].result[1].audio = Some(<< 2 >>)

\* C7: an exception other than the expiry of the attempt's own deadline is
\* never followed by another attempt: every attempt that was followed by
\* another one ended because its deadline expired.
C7_OnlyDeadlineRetried ==
    \A i \in DOMAIN unit :
        \A j \in DOMAIN unit[i].history :
            j < Attempts(unit[i]) => unit[i].history[j].kind = "deadline"

DistinctIdentifiers ==
    \A i, j \in DOMAIN text_speaker_items :
        i # j => text_speaker_items[i][1] # text_speaker_items[j][1]

\* C8: for a batch of pairwise distinct identifiers, every input identifier
\* is in exactly one of audio_map and item_errors, and their sizes add up to
\* the number of input items.
C8_TotalAccounting ==
    (ret # None /\ DistinctIdentifiers) =>
        /\ \A i \in DOMAIN text_speaker_items :
              LET id == Str(text_speaker_items[i][1])
              IN /\ (id \in DOMAIN ret[1].audio_map) # (id \in ErrorIds(ret[1]))
                 /\ Cardinality({ k \in DOMAIN ret[1].item_errors :
                                     ret[1].item_errors[k].identifier = id }) <= 1
        /\ Cardinality(DOMAIN ret[1].audio_map) + Len(ret[1].item_errors)
              = Len(text_speaker_items)

\* a batch of three has returned with both audio and item errors
C8_Witness ==
    /\ ret # None
    /\ Len(text_speaker_items) = 3
    /\ ret[1].audio_map # EmptyDict
    /\ ret[1].item_errors # << >>

\* C9: a result with neither an error nor audio is reported as an item error
\* whose reason contains "Missing audio data", and its identifier is not in
\* audio_map.
C9_DefectReported ==
    (ret # None /\ Returned) =>
        \A i \in DOMAIN results[1] :
            Defect(results[1][i]) =>
                /\ \E k \in DOMAIN ret[1].item_errors :
                      /\ ret[1].item_errors[k].identifier = results[1][i].identifier
                      /\ Contains(ret[1].item_errors[k].reason, "Missing audio data")
                /\ results[1][i].identifier \notin DOMAIN ret[1].audio_map

\* a stream ended without audio for one item while another item got audio
C9_Witness ==
    /\ ret # None
    /\ Returned
    /\ \E i \in DOMAIN results[1] :
          results[1][i] = TTSResult(items[i].identifier, Some(<< >>), None)
    /\ ret[1].audio_map # EmptyDict

\* C10: when the scheduler call raises, GenerateAudioBatch raises one
\* RuntimeError "Failed to synthesize text in batch: ..." carrying the cause,
\* and returns no BatchAudioResult.
C10_CatastrophicFailure ==
    (entry = "GenerateAudioBatch" /\ sched_exc # None) =>
        /\ pc = "raised"
        /\ ret = None
        /\ exc # None
        /\ exc[1].cls = "RuntimeError"
        /\ exc[1].cause = sched_exc
        /\ exc[1].msg = << "Failed to synthesize text in batch: " >> \o sched_exc[1].msg

\* creating the event loop failed under a GenerateAudioBatch call
C10_Witness ==
    /\ entry = "GenerateAudioBatch"
    /\ sched_exc = Some([cls |-> "OSError", msg |-> << "Too many open files" >>])
    /\ pc = "raised"

\* C11: for an empty item list synthesize_batch returns [] and
\* GenerateAudioBatch returns an empty audio_map and no item errors; no
\* synthesis unit exists and no permit of the gate is ever taken.
C11_EmptyBatch ==
    /\ (entry = "synthesize_batch" /\ items = << >>) =>
          /\ unit = << >>
          /\ loop # "none" => semaphore = BATCH_CONCURRENCY_LIMIT
          /\ Returned => results = Some(<< >>)
          /\ pc = "raised" => (sched_exc # None /\ loop = "none")
    /\ (entry = "GenerateAudioBatch" /\ text_speaker_items = << >>) =>
          /\ unit = << >>
          /\ loop = "none"
          /\ pc \in {"idle", "returned"}
          /\ pc = "returned" => ret = Some(BatchAudioResult(EmptyDict, << >>))

\* GenerateAudioBatch has returned for an empty list
C11_Witness ==
    /\ entry = "GenerateAudioBatch"
    /\ text_speaker_items = << >>
    /\ pc = "returned"
    /\ ret # None

\* C12: every unit holds exactly one permit from its admission to its exit
\* and none afterwards, on every kind of exit; when the batch call returns
\* all BATCH_CONCURRENCY_LIMIT permits are free.
C12_PermitsReleased ==
    /\ (loop # "none" /\ entry # "_shutdown_loop") =>
          semaphore = BATCH_CONCURRENCY_LIMIT - Cardinality(InFlightUnits)
    /\ Returned => semaphore = BATCH_CONCURRENCY_LIMIT

\* a batch larger than the gate has returned after a success, an exhausted
\* timeout and an exception
C12_Witness ==
    /\ Returned
    /\ Len(items) > BATCH_CONCURRENCY_LIMIT
    /\ semaphore = BATCH_CONCURRENCY_LIMIT
    /\ \E i, j, k \in DOMAIN unit :
          /\ Last(unit[i].history).kind = "complete"
          /\ Last(unit[j].history).kind = "deadline"
          /\ Last(unit[k].history).kind = "exception"

\* C13: every result of the scheduler has exactly one of audio and error
\* populated, whatever the stream did.
C13_ExactlyOnePopulated ==
    \A i \in DOMAIN unit :
        unit[i].st = "done" =>
            Truthy(unit[i].result[1].audio) # Truthy(unit[i].result[1].error)

Exited == pc \in {"returned", "raised"}

\* C14: once synthesize_batch has returned or raised, the loop it created is
\* closed and none of the loop's tasks is pending: those that were pending at
\* teardown are cancelled.
C14_LoopClosedAndDrained ==
    (Exited /\ loop # "none") =>
        /\ loop = "closed"
        /\ teardown # << >>
        /\ PendingTasks = {}
        /\ \A i \in DOMAIN loop_tasks : loop_tasks[i] \in {"cancelled", "done"}

\* _shutdown_loop has cancelled a pending task although one of its shutdown
\* calls raised
C14_Witness ==
    /\ entry = "_shutdown_loop"
    /\ pc = "returned"
    /\ \E i \in DOMAIN loop_tasks : loop_tasks[i] = "cancelled"
    /\ "shutdown_default_executor" \notin Range(teardown)

\* C15: on every exit path teardown performs, in this order and with none
\* skipped: cancel the pending tasks, await them, shut down the async
\* generators and the default executor, close the loop.
C15_AllStepsInOrder ==
    teardown # << >> =>
        \/ teardown = << "cancel", "await", "shutdown_asyncgens",
                         "shutdown_default_executor", "close" >>
        \/ /\ teardown = << "cancel", "shutdown_asyncgens",
                            "shutdown_default_executor", "close" >>
           /\ \A i \in DOMAIN loop_tasks : loop_tasks[i] # "cancelled"

\* the single result the batch call of GenerateAudioQuery has produced
QueryResult == results[1][1]

PreviewFailed ==
    /\ pc = "raised"
    /\ exc # None
    /\ exc[1].msg[1] = "Audio generation failed for preview item "

\* C16: GenerateAudioQuery submits exactly one item, with identifier '0'; it
\* does not return when that item's outcome is an error, and what it returns
\* is that item's audio, which is neither None nor empty.
C16_QueryReturnsAudioOrRaises ==
    entry = "GenerateAudioQuery" =>
        /\ pc \notin {"idle", "called"} =>
              (Len(items) = 1 /\ items[1].identifier = << 0 >>)
        /\ pc = "done" =>
              /\ query_ret # None
              /\ query_ret[1] # << >>
              /\ query_ret = QueryResult.audio
              /\ ~Truthy(QueryResult.error)
        /\ pc # "done" => query_ret = None
        /\ (Returned /\ Truthy(QueryResult.error)) =>
              (pc = "returned" \/ PreviewFailed)

\* a preview has returned the audio of a second attempt
C16_Witness ==
    /\ entry = "GenerateAudioQuery"
    /\ pc = "done"
    /\ query_ret # None
    /\ Len(unit[1].history) = 2

\* C17: when the single item's outcome has neither audio nor error, the
\* failure GenerateAudioQuery raises is not the 'Audio generation failed for
\* preview item' failure it raises for an item error.
C17_DistinctDefectFailure ==
    (entry = "GenerateAudioQuery" /\ pc = "raised" /\ Returned /\ Defect(QueryResult)) =>
        ~PreviewFailed

\* the voice item i of the batch asks for, "" when it names none
ItemVoice(i) ==
    IF text_speaker_items = << >> THEN items[i].voice ELSE text_speaker_items[i][3]

Started(i) == unit[i].cfg # None

\* C18: an item that names a voice is synthesized with that voice, also when
\* the voice differs from the batch-level one (the first item's); an item
\* that names none is synthesized with the batch-level voice. Pitch, rate,
\* volume, timeout and retry count of every item are those of the batch.
C18_PerItemVoice ==
    \A i \in DOMAIN unit :
        Started(i) =>
            LET used == unit[i].cfg[1]
                batch == tts_config[1]
            IN /\ used.voice = (IF ItemVoice(i) # "" THEN ItemVoice(i) ELSE batch.voice)
               /\ entry = "GenerateAudioBatch" =>
                     /\ batch.voice = text_speaker_items[1][3]
                     /\ batch.pitch = Signed(Get(config, "pitch_slider_value", 0), "Hz")
                     /\ batch.stream_timeout =
                           Get(config, "stream_timeout_seconds", STREAM_TIMEOUT_SECONDS_DEFAULT)
               /\ used.pitch = batch.pitch
               /\ used.rate = batch.rate
               /\ used.volume = batch.volume
               /\ used.stream_timeout = batch.stream_timeout
               /\ used.stream_timeout_retries = batch.stream_timeout_retries

\* one batch in which an item used a voice other than the batch-level one
\* and another item, naming none, used the batch-level one
C18_Witness ==
    /\ ret # None
    /\ \E i, j \in DOMAIN unit :
          /\ Started(i) /\ Started(j)
          /\ ItemVoice(i) # ""
          /\ unit[i].cfg[1].voice # tts_config[1].voice
          /\ ItemVoice(j) = ""
          /\ unit[j].cfg[1].voice = tts_config[1].voice
          /\ unit[i].cfg[1].pitch.sign = "-"

\* the batch calls of the run that have not ended
InFlightBatches == { k \in DOMAIN driver.batches : driver.batches[k].ended = "no" }

\* C19: the k-th batch call gets the k-th run of at most chunk_size pending
\* notes, in input order; when a later call has started, the earlier call has
\* returned and every note of its chunk has been handled; at most one batch
\* call is in flight.
C19_SequentialChunks ==
    /\ \A k \in DOMAIN driver.batches :
          /\ Len(driver.batches[k].items) \in 1 .. chunk_size
          /\ driver.batches[k].items =
                Slice(driver.pending_note_ids, (k - 1) * chunk_size, k * chunk_size)
          /\ k < Len(driver.batches) =>
                /\ driver.batches[k].ended = "returned"
                /\ driver.batches[k].handled = driver.batches[k].items
          /\ Len(driver.batches[k].handled) <= Len(driver.batches[k].items)
          /\ driver.batches[k].handled =
                SubSeq(driver.batches[k].items, 1, Len(driver.batches[k].handled))
          /\ driver.batches[k].ended = "no" => driver.batches[k].handled = << >>
    /\ Cardinality(InFlightBatches) <= 1
    /\ driver.pc = "batch" <=> InFlightBatches # {}

\* the second batch call of a run of more than chunk_size notes is in flight
C19_Witness ==
    /\ Len(driver.pending_items) > chunk_size
    /\ Len(driver.batches) = 2
    /\ Len(driver.batches[1].items) = chunk_size
    /\ driver.pc = "batch"

\* C20: after a poll has observed the cancel request no batch call is started
\* and no note is written; the batch call in flight ends only by returning or
\* raising on its own, also when cancellation is requested meanwhile, and the
\* notes it returned are handled until a poll observes the request.
C20_CooperativeCancel ==
    [][ /\ driver.observed =>
              /\ driver'.batches = driver.batches
              /\ driver'.fields = driver.fields
              /\ driver'.files = driver.files
              /\ driver'.pc \in {"after_chunk", "end", "done"}
        /\ (driver.pc = "batch" /\ driver'.pc # "batch") =>
              /\ Last(driver'.batches).ended \in {"returned", "raised"}
              /\ Last(driver'.batches).ended = "returned" =>
                    /\ driver'.pc = "notes"
                    /\ driver'.batch_result # None
              /\ ~driver'.observed
        /\ (driver.pc = "batch" /\ driver'.pc = "batch") =>
              driver'.batches = driver.batches ]_vars

\* cancellation was requested while a batch call was in flight; the call
\* returned, its first note was handled, then the poll ended the run with
\* notes left
C20_Witness ==
    /\ driver.observed
    /\ driver.pc = "done"
    /\ Len(driver.batches) = 1
    /\ driver.batches[1].cancel_at_end
    /\ Len(driver.batches[1].handled) = 1
    /\ Len(driver.files) = 1
    /\ Len(driver.pending_items) > chunk_size

\* the run has ended: GenerateAudio returned, or raised into on_done
RunEnded == driver.pc \in {"done", "failed"}

Shown(kind) == { i \in DOMAIN driver.shown : driver.shown[i].kind = kind }

\* the identifiers of the notes whose destination field the run has set
Written == { id \in DOMAIN driver.fields :
                \E i \in DOMAIN driver.fields[id] :
                    driver.fields[id][i].kind = "sound" }

\* C21: after a run that ended by cancellation every chunk that was started
\* has had all of its notes handled.
C21_ChunkAllOrNothing ==
    (driver.pc = "done" /\ driver.observed) =>
        \A k \in DOMAIN driver.batches :
            driver.batches[k].handled = driver.batches[k].items

\* C22: a note without the source field is skipped on its own; no run is
\* aborted by the exception of the missing field.
C22_MissingFieldSkipped ==
    driver.pc = "failed" => driver.exc[1].cls # "KeyError"

\* C23: a run that ends with failed items has shown one summary that lists
\* every failure; after a note was written the run never ends with nothing
\* but the critical box of one exception.
C23_FailureSummary ==
    RunEnded =>
        /\ driver.failures # << >> =>
              /\ Cardinality(Shown("warning")) = 1
              /\ \A i \in Shown("warning") : driver.shown[i].body = driver.failures
        /\ Written # {} => Shown("critical") = {}

\* C24: a run that skipped at least one note has reported the skipped notes
\* when it ends, also when no note was pending.
C24_SkipsReported ==
    (driver.pc = "done" /\ driver.skipped_count > 0) => Shown("tooltip") # {}

\* C25: a run the user cancelled shows neither the skipped-notes message nor
\* the failure summary.
C25_CancelSuppressesMessages ==
    (driver.pc = "done" /\ driver.observed) =>
        (Shown("tooltip") = {} /\ Shown("warning") = {})

RunnerReturned == entry = "external_tts_runner" /\ results # None

\* the identifiers of the entries the runner returned
RunnerIdentifiers == [k \in 1 .. Len(results[1]) |-> results[1][k].id]

\* the identifiers of the results the in-process scheduler returns for a
\* batch of the same items
BundledIdentifiers(its) ==
    Identifiers(Gather([i \in 1 .. Len(its) |->
        [PendingUnit EXCEPT !.st = "done",
                            !.result = Some(ResultOnSuccess(
                                TTSItem(Str(its[i].id), its[i].text, ""),
                                AudioOf(its[i].text)))]]))

\* C26: for the same items the out-of-process runner returns the identifiers
\* in the sequence the in-process scheduler returns them, the input order.
C26_SameOrderBothPaths ==
    RunnerReturned =>
        /\ RunnerIdentifiers = BundledIdentifiers(items)
        /\ RunnerIdentifiers = [i \in 1 .. Len(items) |-> Str(items[i].id)]

\* the entry the runner returns for item i
EntryOf(i) ==
    IF unit[i].exception # None
    THEN RunnerEntry(Str(items[i].id), None, Some(unit[i].exception[1].msg))
    ELSE RunnerEntry(Str(items[i].id), Some(Base64(unit[i].value[1])), None)

\* C27: the runner returns one entry per item, the item's audio or the
\* message of its exception, in ascending str order of the identifiers,
\* whatever the order of the payload and of the completions.
C27_RunnerSortedByIdentifier ==
    RunnerReturned =>
        /\ Len(results[1]) = Len(items)
        /\ \A i \in DOMAIN items :
              Cardinality({ k \in DOMAIN results[1] : results[1][k] = EntryOf(i) }) = 1
        /\ \A k \in 1 .. (Len(results[1]) - 1) :
              ~LexLess(results[1][k + 1].id, results[1][k].id)

\* a payload not in identifier order, its tasks finished out of order, one
\* of them with an exception, '10' sorted before '2'
C27_Witness ==
    /\ RunnerReturned
    /\ out_of_order
    /\ Len(items) = 3
    /\ items[1].id = 2 /\ items[2].id = 10
    /\ results[1][1].id = << 1, 0 >>
    /\ \E k \in DOMAIN results[1] : results[1][k].error # None
    /\ \E k \in DOMAIN results[1] : results[1][k].audio # None

\* the first result synthesize_batch returned to synthesize_single
FirstResult == results[1][1]

\* C28: synthesize_single returns exactly when the first result has no error
\* and non-empty audio, and then returns that audio; for an error result, a
\* result with neither audio nor error and an empty list it raises
\* RuntimeError; it never returns empty bytes.
C28_SingleReturnsAudioOrRaises ==
    (entry = "synthesize_single" /\ Returned /\ pc # "returned") =>
        /\ results[1] # << >>
        /\ pc = "done" <=> (FirstResult.error = None /\ Truthy(FirstResult.audio))
        /\ pc = "done" =>
              /\ query_ret = FirstResult.audio
              /\ query_ret[1] # << >>
        /\ pc # "done" =>
              /\ pc = "raised"
              /\ query_ret = None
              /\ exc[1].cls = "RuntimeError"
              /\ exc[1].msg = (IF Truthy(FirstResult.error)
                               THEN FirstResult.error[1] ELSE NoAudioMessage)

\* synthesize_single has raised for a result with neither audio nor error
C28_Witness ==
    /\ entry = "synthesize_single"
    /\ pc = "raised"
    /\ Returned
    /\ Defect(FirstResult)
    /\ exc[1].msg = NoAudioMessage

\* C29: after the user chose the create-new-field entry and cancelled the
\* name prompt, or entered the name of an existing field, the destination
\* dropdown is back on the index it had before the prompt.
C29_DestinationRestored ==
    dialog.prompted \in { "cancelled", "exists" } =>
        dialog.destination_combo.index = dialog.previous_index

\* no preview is being generated and the main thread has nothing queued
PreviewQuiet == dialog.task = None /\ dialog.main = << >>

\* C30: once the work PreviewVoice started is over - cached playback,
\* generation that succeeded, generation or playback that failed - the
\* preview button is enabled again and shows its original text.
C30_ButtonRestored ==
    PreviewQuiet =>
        dialog.preview_voice_button = [text |-> PreviewVoiceText, enabled |-> TRUE]

\* a unit's attempt ended by a timeout: the deadline of wait_for, or the
\* stream's own TimeoutError
TimedOut(u) == u.history # << >> /\ Last(u.history).kind \in { "deadline", "stream_timeout" }

\* one step of unit i along Pending -> Admitted -> InFlight(k) -> Success |
\* TerminalFailure; admission and the start of the first attempt are one step
UnitStep(i) ==
    LET u == unit[i]
        v == unit'[i]
    IN  v # u =>
          \/ u.st = "pending" /\ v.st = "inflight" /\ v.attempt = 0
          \/ u.st = "inflight" /\ v.st = "inflight" /\ v.attempt = u.attempt
          \/ /\ u.st = "inflight" /\ v.st = "inflight" /\ v.attempt = u.attempt + 1
             /\ u.attempt < Retries(u)
             /\ TimedOut(v)
          \/ u.st = "inflight" /\ v.st = "done"

\* unit i has reached Success or TerminalFailure
Terminal(i) == i \in DOMAIN unit /\ Done(i)

\* every unit ends and the call leaves its running state
UnitsTerminate ==
    /\ \A i \in 1 .. MaxGateItems : (pc = "running" /\ i \in Units) ~> Terminal(i)
    /\ (pc = "running") ~> (pc # "running")

\* C31: under fair scheduling every unit moves only along Pending ->
\* Admitted -> InFlight(attempt k) -> Success | TerminalFailure, a timed-out
\* attempt within the retry count leading to the next attempt; every unit
\* reaches Success or TerminalFailure and the batch call returns, also with
\* more items than permits and with streams that never yield data.
C31_UnitLifecycle ==
    /\ [][\A i \in DOMAIN unit \cap DOMAIN unit' : UnitStep(i)]_vars
    /\ UnitsTerminate

\* the notes whose destination field held content, trimmed, when the run
\* scanned them
HadContent ==
    { n \in DOMAIN driver.initial_fields : StripContent(driver.initial_fields[n]) # << >> }

\* the scanning loop has run to its end
Scanned == driver.pc # "scan" /\ ~(driver.exc # None /\ driver.exc[1].cls = "KeyError")

\* the note ids sent to GenerateAudioBatch so far
Batched == UNION { Range(driver.batches[b].items) : b \in DOMAIN driver.batches }

\* C32: in skip mode a note whose destination field is non-empty after
\* trimming when the run scans it is counted as skipped, is in no batch sent
\* for synthesis, and keeps its destination field as it was.
C32_SkipLeavesNoteAlone ==
    (driver.audio_handling_mode = "skip" /\ Scanned) =>
        /\ driver.skipped_count = Cardinality(HadContent) + driver.missing_text_skips
        /\ \A n \in HadContent :
              /\ n \notin Batched
              /\ n \notin Range(driver.pending_note_ids)
              /\ driver.fields[n] = driver.initial_fields[n]

\* a skip-mode run has ended: the first note, whose field held text with
\* whitespace around it, was skipped, the third was written
C32_Witness ==
    /\ driver.pc = "done"
    /\ driver.audio_handling_mode = "skip"
    /\ driver.initial_fields[1] = << Space, OldContent, Space >>
    /\ 1 \in HadContent
    /\ 3 \in Written
    /\ driver.skipped_count = 2

\* the step writes a new audio file
FileWritten == Len(driver'.files) = Len(driver.files) + 1

\* the reference to the file the step wrote
NewSoundRef == SoundRef(Len(driver'.files))

\* the notes whose destination field the step assigns
AssignedNotes == { n \in DOMAIN driver.fields : driver'.fields[n] # driver.fields[n] }

C34_AudioOfOwnText ==
    \A n \in DOMAIN driver.fields :
        \A k \in DOMAIN driver.fields[n] :
            driver.fields[n][k].kind = "sound" =>
                LET file_id == driver.fields[n][k].val[1]
                IN  /\ file_id \in DOMAIN driver.files
                    /\ driver.files[file_id] = AudioOf(driver.text[n])

\* a run of two chunks has ended: the first note failed, so the last note
\* of the second chunk refers to the tenth file, which holds its own audio
C34_Witness ==
    /\ driver.pc = "done"
    /\ Len(driver.batches) = 2
    /\ 1 \notin Written
    /\ 11 \in DOMAIN driver.fields
    /\ driver.fields[11] = << SoundRef(10) >>
    /\ driver.files[10] = AudioOf(driver.text[11])

\* the notes the note loop has handled, over all batches
RECURSIVE HandledNotes(_)
HandledNotes(batches) ==
    IF batches = << >> THEN << >>
    ELSE HandledNotes(SubSeq(batches, 1, Len(batches) - 1)) \o Last(batches).handled

\* how the run classified its notes
SkippedNotes == Range(driver.notes) \ Range(driver.pending_note_ids)
FailedNotes ==
    { n \in Range(driver.notes) :
        \E i \in DOMAIN driver.failures : driver.failures[i].identifier = Str(n) }
WrittenNotes ==
    { n \in Range(driver.notes) : driver.fields[n] # driver.initial_fields[n] }

\* C35: the processed-notes counter never exceeds the number of selected
\* notes and counts no note twice; after a run that finished without
\* cancellation or exception every selected note is exactly one of skipped,
\* failed and written, and the counter equals the number of selected notes.
C35_EveryNoteCountedOnce ==
    LET handled == HandledNotes(driver.batches)
    IN  /\ driver.notes_so_far <= Len(driver.notes)
        /\ \A i, j \in DOMAIN handled : handled[i] = handled[j] => i = j
        /\ Scanned =>
              /\ driver.notes_so_far = driver.skipped_count + Len(handled)
              /\ driver.skipped_count = Cardinality(SkippedNotes)
              /\ Range(handled) \cap SkippedNotes = {}
        /\ (driver.pc = "done" /\ ~driver.observed) =>
              /\ driver.notes_so_far = Len(driver.notes)
              /\ SkippedNotes \cup FailedNotes \cup WrittenNotes = Range(driver.notes)
              /\ SkippedNotes \cap FailedNotes = {}
              /\ SkippedNotes \cap WrittenNotes = {}
              /\ FailedNotes \cap WrittenNotes = {}
              /\ Len(driver.failures) = Cardinality(FailedNotes)

\* an append-mode run of three notes has finished without cancellation:
\* the first note failed, the second was skipped, the third was written
C35_Witness ==
    /\ driver.pc = "done"
    /\ ~driver.observed
    /\ driver.notes_so_far = 3
    /\ FailedNotes = { 1 }
    /\ SkippedNotes = { 2 }
    /\ WrittenNotes = { 3 }

\* C36: for every retry count, also 0 and below 0, a synthesis call that
\* fails has issued at least one attempt.
C36_AttemptBeforeFailure ==
    \A i \in DOMAIN unit :
        (unit[i].st = "done" /\ unit[i].result[1].error # None) =>
            Len(unit[i].history) >= 1

\* C37: the field the run creates, if any, and writes audio to is the entry
\* the destination dropdown showed when the dialog was accepted, whatever
\* selections and create-field prompts came before.
C37_RunUsesShownDestination ==
    dialog.run # None =>
        /\ dialog.run[1].destination_field = dialog.run[1].shown
        /\ dialog.run[1].created # None => dialog.run[1].created[1] = dialog.run[1].shown

\* _download, called on its own, has returned or raised
DownloadFinished ==
    runtime.caller = "_download" /\ runtime.pc \in { "returned", "raised" }

\* C38: after _download finishes a file is at the destination only if the
\* download completed and, with expected_hash given, its SHA-256 is
\* expected_hash; when _download raised no file is left.
C38_NoUnverifiedFileLeft ==
    DownloadFinished =>
        /\ runtime.file # None =>
              /\ runtime.pc = "returned"
              /\ runtime.completed
              /\ runtime.file[1] = runtime.served
              /\ runtime.expected_hash # None =>
                    Sha256(runtime.file[1]) = runtime.expected_hash[1]
        /\ runtime.pc = "raised" => runtime.file = None

\* C39: every get-pip.py that _ensure_get_pip executed had the SHA-256 of
\* EXPECTED_HASHES, whatever earlier failed or interrupted runs left at the
\* script path.
C39_OnlyVerifiedScriptRuns ==
    \A i \in DOMAIN runtime.executed : Sha256(runtime.executed[i]) = ExpectedHash

====
